---- MODULE Spec2Model ----
(***************************************************************************)
(* Accounting and settlement core of the payment backend: the ledger       *)
(* (ledger.ts), the referral escrow state machine (referralEscrow.ts) and  *)
(* the Daraja webhook pipeline (darajaWebhook.ts), over the shared tables  *)
(* transactions, ledger_entries, user_balances, referrals, users and       *)
(* webhook_idempotency.                                                    *)
(*                                                                         *)
(* Every handler is an async function; it is cut into one action per       *)
(* awaited store call, so that the requests of two tasks interleave        *)
(* exactly where the code can be suspended.  Spec runs one request at a    *)
(* time (a request starts only when no other is in flight); SpecConc lets  *)
(* the requests of the tasks interleave.                                   *)
(*                                                                         *)
(* Time is counted in days.                                                *)
(***************************************************************************)
EXTENDS Integers, Sequences, FiniteSets, TLC

\* ---------------------------------------------------------------- bounds
MaxTx == 2
MaxRef == 1
MaxTicks == 1
MaxDeliveries == 2
MaxConcRequests == 3

\* ------------------------------------------------------------- constants
\* darajaWebhook.ts:11  24 * 60 * 60 * 1000 ms, here in days
IDEMPOTENCY_WINDOW_MS == 1
\* one calendar day (Date.setDate(getDate() + n))
DayUnits == IDEMPOTENCY_WINDOW_MS
\* index.ts:120  the signup fee
SignupAmount == 250
\* new Date(null): the epoch, which lies more than a window before any "now"
EpochTime == 0
StartTime == IDEMPOTENCY_WINDOW_MS + 1
MaxTime == StartTime + MaxTicks

Tasks == {1, 2}
ProcNames == <<"p1", "p2">>
Procs == {ProcNames[i] : i \in 1..Len(ProcNames)}
ExistingUsers == {"A", "B"}
\* the users whose requests are followed
Requesters == {"A"}
NewUserIds == <<"N1", "N2">>
UserIds == ExistingUsers \cup {NewUserIds[i] : i \in 1..Len(NewUserIds)}
NullUser == "NULL"
Emails == {"n@x"}
TxTypes == {"deposit", "withdrawal", "referral_payout", "escrow_release", "fee"}
TxStatuses == {"pending", "completed", "failed", "cancelled"}
RequestTypes == {"withdrawal", "fee"}
RequestAmounts == {50}
ReferralAmounts == {100}
\* the delay the escrow service was constructed with, in days (the code's
\* default is 7; a short delay keeps the clock small)
DelayChoices == {1}
Merchants == <<"m1", "m2">>
ResultCodes == {0, 1032}
\* the Amount item of CallbackMetadata
WebhookAmounts == {250}

VARIABLES
  now,                 \* the wall clock (Date.now()), in days
  concurrent,          \* FALSE: one request at a time; TRUE: requests interleave
  transactions,        \* table transactions: sequence of rows, id = index
  ledger_entries,      \* table ledger_entries: sequence of rows (append-only)
  user_balances,       \* table user_balances: user id -> cached row
  referrals,           \* table referrals: sequence of rows, id = index
  users,               \* table users: set of [id, email, phone]
  user_devices,        \* table user_devices: set of [user_id, fingerprint_hash]
  webhook_idempotency, \* table webhook_idempotency: key -> row
  processedWebhooks,   \* per process: DarajaWebhookService.processedWebhooks
  escrowDelayDays,     \* ReferralEscrowService.escrowDelayDays
  deliveries,          \* number of webhook deliveries started (bounded)
  requests,            \* number of interleaved requests started (bounded)
  applied,             \* history: the deliveries answered 'processed' (or aborted)
  pc,                  \* per task: where its request stands
  loc,                 \* per task: the locals of its request
  fraud,               \* the fraud gate: the tables it reads and its request
  limits,              \* the withdrawal limiter: the rows it reads, its call
  admin,               \* the admin settings: admin_controls, index.ts state
  strictSchema         \* the store refuses a write naming a column its table lacks

store == <<transactions, ledger_entries, user_balances, referrals, users,
           user_devices, webhook_idempotency>>

\* a service that the specification at hand does not exercise
ServiceOff == [pc |-> "off"]
\* the state of the services that are followed on their own (SpecFraud,
\* SpecLimits, SpecAdmin); the ledger, escrow and webhook steps leave it alone
aux == <<fraud, limits, admin, strictSchema>>
\* the state the ledger, escrow and webhook steps work on
core == <<now, concurrent, transactions, ledger_entries, user_balances,
          referrals, users, user_devices, webhook_idempotency,
          processedWebhooks, escrowDelayDays, deliveries, requests, applied,
          pc, loc>>
vars == <<now, concurrent, transactions, ledger_entries, user_balances,
          referrals, users, user_devices, webhook_idempotency,
          processedWebhooks, escrowDelayDays, deliveries, requests, applied,
          pc, loc, fraud, limits, admin, strictSchema>>

\* ------------------------------------------------------------ row shapes
Reference(kind, n) == <<kind, n>>
RefOfReferral(referralId) == Reference("REF", referralId)
CheckoutIds == {Reference("CO", i) : i \in 1..MaxTx}
                 \cup {RefOfReferral(r) : r \in 1..MaxRef}

ZeroBalance == [exists |-> FALSE, total |-> 0, escrow |-> 0, available |-> 0]
NoEvent == [checkout |-> Reference("CO", 1), merchant |-> "m1", code |-> 0,
            items |-> FALSE, amount |-> 0]
NoPre == [u \in Requesters |-> ZeroBalance]

InitLoc == [op |-> "none", proc |-> "p1", ev |-> NoEvent, tx |-> 0,
            snapUser |-> NullUser, snapType |-> "deposit", snapAmount |-> 0,
            snapEmail |-> "", user |-> NullUser, debit |-> 0, credit |-> 0,
            cur |-> 0, bal |-> ZeroBalance, ret |-> "none", cret |-> "none",
            ref |-> 0, queue |-> <<>>, count |-> 0, inSweep |-> FALSE,
            force |-> FALSE, resp |-> "none", pre |-> NoPre, sel |-> {},
            audit |-> "none", snapStatus |-> "none"]

\* the services followed on their own, before any request reaches them

\* ------------------------------------------------------------------ Init
\* the tables as the schema creates them and the handlers at rest
InitTables ==
  /\ now = StartTime
  /\ transactions = <<>>
  /\ ledger_entries = <<>>
  /\ user_balances = [u \in UserIds |-> ZeroBalance]
  /\ referrals = <<>>
  /\ users = {[id |-> u, email |-> u, phone |-> ""] : u \in ExistingUsers}
  /\ user_devices = {}
  /\ webhook_idempotency = <<>>
  /\ processedWebhooks = [p \in Procs |-> <<>>]
  /\ deliveries = 0
  /\ requests = 0
  /\ applied = {}
  /\ pc = [t \in Tasks |-> "idle"]
  /\ loc = [t \in Tasks |-> InitLoc]

Init ==
  /\ InitTables
  /\ concurrent \in BOOLEAN
  /\ escrowDelayDays \in DelayChoices
  /\ fraud = ServiceOff
  /\ limits = ServiceOff
  /\ admin = ServiceOff
  /\ strictSchema \in BOOLEAN

\* --------------------------------------------------------------- helpers
SetLoc(t, l) == loc' = [loc EXCEPT ![t] = l]
Goto(t, label) == pc' = [pc EXCEPT ![t] = label]
AllIdle == \A s \in Tasks : pc[s] = "idle"
\* a request may start on an idle task; Spec admits one request at a time
CanStart(t) ==
  /\ pc[t] = "idle"
  /\ IF concurrent THEN requests < MaxConcRequests ELSE t = 1 /\ AllIdle
  /\ requests' = IF concurrent THEN requests + 1 ELSE requests

RECURSIVE SumSeq(_)
SumSeq(s) == IF s = <<>> THEN 0 ELSE Head(s) + SumSeq(Tail(s))

\* ------------------------------------------------------------ ledger.ts
CreditTypes == {"deposit", "referral_payout", "escrow_release"}
DebitTypes == {"withdrawal", "fee"}

\* the query of computeBalanceFromTransactions:
\* .eq('user_id', userId).in('status', ['completed', 'pending'])
BalanceQueryStatuses == {"completed", "pending"}

\* a faulty loop body that also counts the pending rows the query returns
AccumulateTxAnyStatus(acc, tx) ==
  IF tx.type = "referral_payout" /\ tx.status = "pending"
    THEN [acc EXCEPT !.escrow = @ + tx.amount]
    ELSE IF tx.type \in CreditTypes
           THEN [acc EXCEPT !.total = @ + tx.amount]
           ELSE IF tx.type \in DebitTypes
                  THEN [acc EXCEPT !.total = @ - tx.amount]
                  ELSE acc

\* one iteration of the loop of computeBalanceFromTransactions
AccumulateTx(acc, tx) ==
  IF tx.type = "referral_payout" /\ tx.status = "pending"
    THEN [acc EXCEPT !.escrow = @ + tx.amount]
    ELSE IF tx.status = "completed"
      THEN IF tx.type \in CreditTypes
             THEN [acc EXCEPT !.total = @ + tx.amount]
             ELSE IF tx.type \in DebitTypes
                    THEN [acc EXCEPT !.total = @ - tx.amount]
                    ELSE acc
      ELSE acc

RECURSIVE BalanceLoop(_, _, _, _)
BalanceLoop(txs, userId, i, acc) ==
  IF i > Len(txs) THEN acc
  ELSE BalanceLoop(txs, userId, i + 1,
         IF txs[i].userId = userId /\ txs[i].status \in BalanceQueryStatuses
           THEN AccumulateTx(acc, txs[i]) ELSE acc)

\* a faulty derivation that forgets the escrow
AvailableOfTotalOnly(totalBalance, escrowBalance) == totalBalance

\* const availableBalance = totalBalance - escrowBalance
AvailableOf(totalBalance, escrowBalance) == totalBalance - escrowBalance

\* the balance computeBalanceFromTransactions derives from the table
computeBalance(txs, userId) ==
  LET acc == BalanceLoop(txs, userId, 1, [total |-> 0, escrow |-> 0])
  IN [exists |-> TRUE, total |-> acc.total, escrow |-> acc.escrow,
      available |-> AvailableOf(acc.total, acc.escrow)]

\* a faulty switch that has no case for escrow_release
CreditOfWithoutRelease(type, amount) ==
  IF type \in CreditTypes \ {"escrow_release"} THEN amount ELSE 0

\* a faulty switch whose fee case is missing
DebitOfWithoutFee(type, amount) == IF type = "withdrawal" THEN amount ELSE 0

\* the switch of recordTransaction
DebitOf(type, amount) == IF type \in DebitTypes THEN amount ELSE 0
CreditOf(type, amount) == IF type \in CreditTypes THEN amount ELSE 0

\* the locals of a call recordTransaction(transaction) that returns to ret
RecordCall(l, txId, userId, type, amount, ret) ==
  [l EXCEPT !.tx = txId, !.user = userId, !.debit = DebitOf(type, amount),
            !.credit = CreditOf(type, amount), !.ret = ret]

NewBalance(currentTotal, debit, credit) == currentTotal - debit + credit

\* createLedgerEntry: getUserBalance(userId) reads the cached row, or
\* recomputes when there is none
createLedgerEntry_getUserBalance(t) ==
  /\ pc[t] = "led_getbal"
  /\ IF user_balances[loc[t].user].exists
       THEN /\ SetLoc(t, [loc[t] EXCEPT !.cur = user_balances[loc[t].user].total])
            /\ Goto(t, "led_insert")
       ELSE /\ SetLoc(t, [loc[t] EXCEPT !.cret = "led_insert"])
            /\ Goto(t, "cmp_read")
  /\ UNCHANGED <<requests, now, concurrent, aux, store, processedWebhooks, escrowDelayDays,
                 deliveries, applied>>

\* computeBalanceFromTransactions: the two selects and the loop
computeBalanceFromTransactions_read(t) ==
  /\ pc[t] = "cmp_read"
  /\ SetLoc(t, [loc[t] EXCEPT !.bal = computeBalance(transactions, loc[t].user)])
  /\ Goto(t, "cmp_write")
  /\ UNCHANGED <<requests, now, concurrent, aux, store, processedWebhooks, escrowDelayDays,
                 deliveries, applied>>

\* computeBalanceFromTransactions: updateUserBalanceCache(userId, balance)
computeBalanceFromTransactions_write(t) ==
  /\ pc[t] = "cmp_write"
  /\ user_balances' = [user_balances EXCEPT ![loc[t].user] = loc[t].bal]
  /\ SetLoc(t, [loc[t] EXCEPT !.cur = IF loc[t].cret = "led_insert"
                                        THEN loc[t].bal.total ELSE @])
  /\ Goto(t, loc[t].cret)
  /\ UNCHANGED <<requests, now, concurrent, aux, transactions, ledger_entries, referrals,
                 users, user_devices, webhook_idempotency, processedWebhooks,
                 escrowDelayDays, deliveries, applied>>

\* createLedgerEntry: the insert into ledger_entries
createLedgerEntry_insert(t) ==
  /\ pc[t] = "led_insert"
  /\ ledger_entries' = Append(ledger_entries,
       [transactionId |-> loc[t].tx, userId |-> loc[t].user,
        debit |-> loc[t].debit, credit |-> loc[t].credit,
        balance |-> NewBalance(loc[t].cur, loc[t].debit, loc[t].credit)])
  /\ SetLoc(t, [loc[t] EXCEPT !.cret = "led_upsert"])
  /\ Goto(t, "cmp_read")
  /\ UNCHANGED <<requests, now, concurrent, aux, transactions, user_balances, referrals,
                 users, user_devices, webhook_idempotency, processedWebhooks,
                 escrowDelayDays, deliveries, applied>>

\* createLedgerEntry: updateUserBalanceCache(userId) upserts the recomputed
\* balance once more, then recordTransaction returns to its caller
updateUserBalanceCache(t) ==
  /\ pc[t] = "led_upsert"
  /\ user_balances' = [user_balances EXCEPT ![loc[t].user] = loc[t].bal]
  /\ Goto(t, loc[t].ret)
  /\ UNCHANGED <<requests, now, concurrent, aux, transactions, ledger_entries, referrals,
                 users, user_devices, webhook_idempotency, processedWebhooks,
                 escrowDelayDays, deliveries, applied, loc>>

\* the users whose balance is read through the API
BalanceReaders == {u.id : u \in users} \ (ExistingUsers \ Requesters)

\* GET /api/balance/:userId -> getUserBalance(userId, forceRecompute)
getUserBalance(t, userId, forceRecompute) ==
  /\ CanStart(t)
  /\ IF forceRecompute \/ ~user_balances[userId].exists
       THEN /\ SetLoc(t, [InitLoc EXCEPT !.op = "balance", !.user = userId,
                             !.force = forceRecompute, !.cret = "done"])
            /\ Goto(t, "cmp_read")
       ELSE /\ SetLoc(t, [InitLoc EXCEPT !.op = "balance", !.user = userId,
                             !.force = forceRecompute,
                             !.bal = user_balances[userId]])
            /\ Goto(t, "done")
  /\ UNCHANGED <<now, concurrent, aux, store, processedWebhooks, escrowDelayDays,
                 deliveries, applied>>

\* ------------------------------------------------------ store queries
\* a faulty lookup without .eq('status', 'pending')
AnyByReference(ref) ==
  LET hits == {i \in 1..Len(transactions) : transactions[i].ref = ref}
  IN IF Cardinality(hits) = 1 THEN CHOOSE i \in hits : TRUE ELSE 0

\* .eq('reference', ref).eq('status', 'pending').single(): the id of the
\* one matching row, 0 when none or several match
PendingByReference(ref) ==
  LET hits == {i \in 1..Len(transactions) :
                 transactions[i].ref = ref /\ transactions[i].status = "pending"}
  IN IF Cardinality(hits) = 1 THEN CHOOSE i \in hits : TRUE ELSE 0

\* the balances of the pre-existing users as the store derives them now
\* (history only: what the request's caller could have read before it)
BalancesNow == [u \in Requesters |-> computeBalance(transactions, u)]

\* inserts in flight that will still take a transactions row
RowsClaimed == Cardinality({s \in Tasks : pc[s] = "cr_tx"})
HasTxRoom == Len(transactions) + RowsClaimed < MaxTx

\* ----------------------------------------------------- referralEscrow.ts
\* escrowReleaseDate.setDate(getDate() + this.escrowDelayDays)
EscrowReleaseDate(createdAt, delayDays) == createdAt + delayDays * DayUnits

\* createReferral: the insert into referrals
createReferral(t, referrerId, referredId, amount) ==
  /\ CanStart(t)
  /\ Len(referrals) < MaxRef
  /\ HasTxRoom
  /\ referrals' = Append(referrals,
       [referrerId |-> referrerId, referredId |-> referredId,
        amount |-> amount, status |-> "escrow",
        releaseDate |-> EscrowReleaseDate(now, escrowDelayDays),
        reason |-> ""])
  /\ SetLoc(t, [InitLoc EXCEPT !.op = "create", !.ref = Len(referrals) + 1,
                               !.user = referrerId, !.snapAmount = amount,
                               !.pre = BalancesNow])
  /\ Goto(t, "cr_tx")
  /\ UNCHANGED <<now, concurrent, aux, transactions, ledger_entries, user_balances,
                 users, user_devices, webhook_idempotency, processedWebhooks,
                 escrowDelayDays, deliveries, applied>>

\* createReferral: the insert of the pending referral_payout transaction
createReferral_transaction(t) ==
  /\ pc[t] = "cr_tx"
  /\ transactions' = Append(transactions,
       [userId |-> loc[t].user, type |-> "referral_payout",
        amount |-> loc[t].snapAmount, status |-> "pending",
        ref |-> RefOfReferral(loc[t].ref), isSignup |-> FALSE, email |-> ""])
  /\ SetLoc(t, [loc[t] EXCEPT !.resp = "created"])
  /\ Goto(t, "done")
  /\ UNCHANGED <<requests, now, concurrent, aux, ledger_entries, user_balances, referrals,
                 users, user_devices, webhook_idempotency, processedWebhooks,
                 escrowDelayDays, deliveries, applied>>

\* a faulty selection that misses a referral whose date is exactly now
IsDueStrictly(referral, time) == referral.releaseDate < time

\* the rows processEscrowReleases selects:
\* .eq('status', 'escrow').lte('escrow_release_date', now)
IsDue(referral, time) == referral.releaseDate <= time
ReadyReferrals ==
  {r \in 1..Len(referrals) :
     referrals[r].status = "escrow" /\ IsDue(referrals[r], now)}

RECURSIVE SeqOfSet(_)
SeqOfSet(S) ==
  IF S = {} THEN <<>>
  ELSE LET m == CHOOSE x \in S : \A y \in S : x <= y
       IN <<m>> \o SeqOfSet(S \ {m})

\* processEscrowReleases: the selection query
processEscrowReleases(t) ==
  /\ CanStart(t)
  /\ SetLoc(t, [InitLoc EXCEPT !.op = "sweep", !.inSweep = TRUE,
                  !.queue = SeqOfSet(ReadyReferrals), !.pre = BalancesNow,
                  !.sel = {r \in ReadyReferrals :
                             PendingByReference(RefOfReferral(r)) # 0}])
  /\ Goto(t, "sw_loop")
  /\ UNCHANGED <<now, concurrent, aux, store, processedWebhooks, escrowDelayDays,
                 deliveries, applied>>

\* processEscrowReleases: one turn of the for loop
processEscrowReleases_loop(t) ==
  /\ pc[t] = "sw_loop"
  /\ IF loc[t].queue = <<>>
       THEN /\ SetLoc(t, [loc[t] EXCEPT !.resp = "swept"])
            /\ Goto(t, "done")
       ELSE /\ SetLoc(t, [loc[t] EXCEPT !.ref = Head(loc[t].queue),
                                        !.queue = Tail(loc[t].queue)])
            /\ Goto(t, "re_fetch")
  /\ UNCHANGED <<requests, now, concurrent, aux, store, processedWebhooks, escrowDelayDays,
                 deliveries, applied>>

\* a direct call releaseEscrow(referralId)
releaseEscrow(t, referralId) ==
  /\ CanStart(t)
  /\ SetLoc(t, [InitLoc EXCEPT !.op = "release", !.ref = referralId])
  /\ Goto(t, "re_fetch")
  /\ UNCHANGED <<now, concurrent, aux, store, processedWebhooks, escrowDelayDays,
                 deliveries, applied>>

\* a faulty sweep without the try/catch round releaseEscrow
ReleaseThrowsUncaught(t, message) ==
  /\ SetLoc(t, [loc[t] EXCEPT !.resp = message])
  /\ Goto(t, "done")

\* where a throw of releaseEscrow lands: the catch of the sweep's loop, or
\* the caller
ReleaseThrows(t, message) ==
  /\ SetLoc(t, [loc[t] EXCEPT !.resp = message])
  /\ Goto(t, IF loc[t].inSweep THEN "sw_loop" ELSE "done")

\* a faulty fetch without .eq('status', 'escrow')
InEscrowAnyStatus(referralId) == referralId \in 1..Len(referrals)

\* the row releaseEscrow fetches: .eq('id', id).eq('status', 'escrow')
InEscrow(referralId) ==
  /\ referralId \in 1..Len(referrals)
  /\ referrals[referralId].status = "escrow"

\* a faulty date check with the comparison turned round
NotYetDueReversed(referral, time) == referral.releaseDate < time

\* escrowReleaseDate > new Date()
NotYetDue(referral, time) == referral.releaseDate > time

\* releaseEscrow: the fetch and the two checks
releaseEscrow_fetch(t) ==
  /\ pc[t] = "re_fetch"
  /\ IF ~InEscrow(loc[t].ref)
       THEN ReleaseThrows(t, "not found or not in escrow")
       ELSE IF NotYetDue(referrals[loc[t].ref], now)
         THEN ReleaseThrows(t, "release date not reached")
         ELSE /\ SetLoc(t, [loc[t] EXCEPT !.resp = "none"])
              /\ Goto(t, "re_paid")
  /\ UNCHANGED <<requests, now, concurrent, aux, store, processedWebhooks, escrowDelayDays,
                 deliveries, applied>>

\* releaseEscrow: update referrals set status = 'paid' where id = referralId
releaseEscrow_paid(t) ==
  /\ pc[t] = "re_paid"
  /\ referrals' = [referrals EXCEPT ![loc[t].ref] =
                     [@ EXCEPT !.status = "paid"]]
  /\ Goto(t, "re_find")
  /\ UNCHANGED <<requests, now, concurrent, aux, transactions, ledger_entries, user_balances,
                 users, user_devices, webhook_idempotency, processedWebhooks,
                 escrowDelayDays, deliveries, applied, loc>>

\* releaseEscrow: the select of the pending REF-<id> transaction
releaseEscrow_find(t) ==
  /\ pc[t] = "re_find"
  /\ LET id == PendingByReference(RefOfReferral(loc[t].ref))
     IN IF id = 0
          THEN /\ SetLoc(t, loc[t])
               /\ Goto(t, "re_ret")
          ELSE /\ SetLoc(t, [loc[t] EXCEPT !.tx = id,
                               !.snapUser = transactions[id].userId,
                               !.snapAmount = transactions[id].amount])
               /\ Goto(t, "re_update")
  /\ UNCHANGED <<requests, now, concurrent, aux, store, processedWebhooks, escrowDelayDays,
                 deliveries, applied>>

\* releaseEscrow: update transactions set status = 'completed',
\* type = 'escrow_release' where id = transaction.id; then recordTransaction
releaseEscrow_update(t) ==
  /\ pc[t] = "re_update"
  /\ transactions' = [transactions EXCEPT ![loc[t].tx] =
                        [@ EXCEPT !.status = "completed",
                                  !.type = "escrow_release"]]
  /\ SetLoc(t, RecordCall(loc[t], loc[t].tx, loc[t].snapUser,
                          "escrow_release", loc[t].snapAmount, "re_ret"))
  /\ Goto(t, "led_getbal")
  /\ UNCHANGED <<requests, now, concurrent, aux, ledger_entries, user_balances, referrals,
                 users, user_devices, webhook_idempotency, processedWebhooks,
                 escrowDelayDays, deliveries, applied>>

\* releaseEscrow returns: processedCount++ in the sweep, or to the caller
releaseEscrow_return(t) ==
  /\ pc[t] = "re_ret"
  /\ SetLoc(t, [loc[t] EXCEPT !.resp = "released",
                  !.count = IF loc[t].inSweep THEN @ + 1 ELSE @])
  /\ Goto(t, IF loc[t].inSweep THEN "sw_loop" ELSE "done")
  /\ UNCHANGED <<requests, now, concurrent, aux, store, processedWebhooks, escrowDelayDays,
                 deliveries, applied>>

\* getEscrowBalance(userId): the sum over the user's escrow referrals
RECURSIVE EscrowLoop(_, _, _)
EscrowLoop(refs, userId, i) ==
  IF i > Len(refs) THEN 0
  ELSE (IF refs[i].referrerId = userId /\ refs[i].status = "escrow"
          THEN refs[i].amount ELSE 0) + EscrowLoop(refs, userId, i + 1)
getEscrowBalance(userId) == EscrowLoop(referrals, userId, 1)

\* cancelReferral(referralId, reason): the start of the call
cancelReferral(t, referralId) ==
  /\ CanStart(t)
  /\ SetLoc(t, [InitLoc EXCEPT !.op = "cancel", !.ref = referralId])
  /\ Goto(t, "ca_fetch")
  /\ UNCHANGED <<now, concurrent, aux, store, processedWebhooks, escrowDelayDays,
                 deliveries, applied>>

\* the row cancelReferral fetches: .eq('id', referralId).single()
ReferralExists(referralId) == referralId \in 1..Len(referrals)

\* cancelReferral: the select
cancelReferral_fetch(t) ==
  /\ pc[t] = "ca_fetch"
  /\ IF ReferralExists(loc[t].ref)
       THEN /\ SetLoc(t, [loc[t] EXCEPT
                         !.snapStatus = referrals[loc[t].ref].status])
            /\ Goto(t, "ca_ref")
       ELSE /\ SetLoc(t, [loc[t] EXCEPT !.resp = "referral not found"])
            /\ Goto(t, "done")
  /\ UNCHANGED <<requests, now, concurrent, aux, store, processedWebhooks, escrowDelayDays,
                 deliveries, applied>>

\* cancelReferral: update referrals set status = 'cancelled' where id = id
cancelReferral_referral(t) ==
  /\ pc[t] = "ca_ref"
  /\ referrals' = [referrals EXCEPT ![loc[t].ref] =
       [@ EXCEPT !.status = "cancelled", !.reason = "reason"]]
  /\ Goto(t, "ca_tx")
  /\ UNCHANGED <<requests, now, concurrent, aux, transactions, ledger_entries, user_balances,
                 users, user_devices, webhook_idempotency, processedWebhooks,
                 escrowDelayDays, deliveries, applied, loc>>

\* cancelReferral: update transactions set status = 'cancelled'
\* where reference = REF-<id>
cancelReferral_transaction(t) ==
  /\ pc[t] = "ca_tx"
  /\ transactions' = [i \in 1..Len(transactions) |->
       IF transactions[i].ref = RefOfReferral(loc[t].ref)
         THEN [transactions[i] EXCEPT !.status = "cancelled"]
         ELSE transactions[i]]
  /\ SetLoc(t, [loc[t] EXCEPT !.resp = "cancelled"])
  /\ Goto(t, "done")
  /\ UNCHANGED <<requests, now, concurrent, aux, ledger_entries, user_balances, referrals,
                 users, user_devices, webhook_idempotency, processedWebhooks,
                 escrowDelayDays, deliveries, applied>>

\* ------------------------------------------------------ darajaWebhook.ts
\* generateIdempotencyKey: sha256 of `${checkoutRequestId}:${merchantRequestId}`,
\* one key per pair of ids
generateIdempotencyKey(checkoutRequestId, merchantRequestId) ==
  <<checkoutRequestId, merchantRequestId>>
KeyOf(ev) == generateIdempotencyKey(ev.checkout, ev.merchant)

\* a processed_at column that was never written
NullTime == EpochTime - 1
\* new Date(data.processed_at).getTime(): null gives the epoch
DateOf(column) == IF column = NullTime THEN EpochTime ELSE column

\* a faulty window test that still counts a record exactly one window old
WithinWindowInclusive(age) == age <= IDEMPOTENCY_WINDOW_MS

\* a faulty window test with the comparison turned round
WithinWindowReversed(age) == age > IDEMPOTENCY_WINDOW_MS

\* age < this.IDEMPOTENCY_WINDOW_MS
WithinWindow(age) == age < IDEMPOTENCY_WINDOW_MS

MapPut(f, k, v) == [x \in DOMAIN f \cup {k} |-> IF x = k THEN v ELSE f[x]]
MapDelete(f, k) == [x \in DOMAIN f \ {k} |-> f[x]]

\* the MerchantRequestIDs seen so far in a delivery for the checkout id
SeenMerchants(checkout) ==
  {i \in 1..Len(Merchants) :
     \/ KeyOf([checkout |-> checkout, merchant |-> Merchants[i]])
          \in DOMAIN webhook_idempotency
     \/ \E s \in Tasks : /\ loc[s].op = "webhook"
                         /\ loc[s].ev.checkout = checkout
                         /\ loc[s].ev.merchant = Merchants[i]}
\* ids are named in the order of their first use: a delivery carries a
\* MerchantRequestID seen before for the checkout id, or the next new one
MerchantChoices(checkout) ==
  {Merchants[i] : i \in {j \in 1..Len(Merchants) :
                          \A k \in 1..(j - 1) : k \in SeenMerchants(checkout)}}
\* likewise the processes are named in the order of their first delivery
ProcChoices == IF deliveries = 0 THEN {ProcNames[1]} ELSE Procs

\* what a callback carries besides its ids: the metadata list exists on
\* success only
Outcomes ==
  {[code |-> 0, items |-> TRUE, amount |-> m] : m \in WebhookAmounts}
    \cup {[code |-> 0, items |-> FALSE, amount |-> 0]}
    \cup {[code |-> c, items |-> FALSE, amount |-> 0] : c \in ResultCodes \ {0}}

\* the callbacks the endpoint can be sent for a checkout id
EventsFor(checkout) ==
  {[checkout |-> checkout, merchant |-> m, code |-> o.code, items |-> o.items,
    amount |-> o.amount] : m \in MerchantChoices(checkout), o \in Outcomes}

\* response.data.CheckoutRequestID of the n-th STK push: the gateway makes
\* the id up; the request carries the route's uuid in AccountReference only
CheckoutRequestID(n) == Reference("ws_CO", n)

\* the callbacks that name the reference of some transaction (the endpoint
\* takes any body), and the gateway's callbacks for the pushes of signups
Events ==
  UNION ({EventsFor(transactions[i].ref) : i \in 1..Len(transactions)}
         \cup {EventsFor(CheckoutRequestID(i)) :
                 i \in {j \in 1..Len(transactions) : transactions[j].isSignup}})

\* POST /webhooks/daraja -> processWebhook(req, res), on process p
processWebhook(t, ev, p) ==
  /\ CanStart(t)
  /\ deliveries < MaxDeliveries
  /\ deliveries' = deliveries + 1
  /\ SetLoc(t, [InitLoc EXCEPT !.op = "webhook", !.ev = ev, !.proc = p])
  /\ Goto(t, "wh_check")
  /\ UNCHANGED <<now, concurrent, aux, store, processedWebhooks, escrowDelayDays,
                 applied>>

\* checkIdempotency: the in-memory hit
CachedHit(p, key) ==
  /\ key \in DOMAIN processedWebhooks[p]
  /\ WithinWindow(now - processedWebhooks[p][key])

\* checkIdempotency: the persistent hit
StoredHit(key) ==
  /\ key \in DOMAIN webhook_idempotency
  /\ WithinWindow(now - DateOf(webhook_idempotency[key].processed_at))

\* checkIdempotency: the in-memory map first, then the persistent record;
\* a duplicate is answered 'Webhook already processed'
checkIdempotency(t) ==
  /\ pc[t] = "wh_check"
  /\ LET key == KeyOf(loc[t].ev)
         p == loc[t].proc
     IN IF CachedHit(p, key)
          THEN /\ UNCHANGED processedWebhooks
               /\ SetLoc(t, [loc[t] EXCEPT !.resp = "already processed"])
               /\ Goto(t, "done")
          ELSE IF StoredHit(key)
            THEN /\ processedWebhooks' = [processedWebhooks EXCEPT ![p] =
                      MapPut(@, key, DateOf(webhook_idempotency[key].processed_at))]
                 /\ SetLoc(t, [loc[t] EXCEPT !.resp = "already processed"])
                 /\ Goto(t, "done")
            ELSE /\ processedWebhooks' = [processedWebhooks EXCEPT ![p] =
                      MapDelete(@, key)]
                 /\ SetLoc(t, loc[t])
                 /\ Goto(t, IF key \in DOMAIN webhook_idempotency
                              THEN "wh_expire" ELSE "wh_mark")
  /\ UNCHANGED <<requests, now, concurrent, aux, store, escrowDelayDays, deliveries, applied>>

\* checkIdempotency: the delete of the expired record
checkIdempotency_cleanup(t) ==
  /\ pc[t] = "wh_expire"
  /\ webhook_idempotency' = MapDelete(webhook_idempotency, KeyOf(loc[t].ev))
  /\ Goto(t, "wh_mark")
  /\ UNCHANGED <<requests, now, concurrent, aux, transactions, ledger_entries, user_balances,
                 referrals, users, user_devices, processedWebhooks,
                 escrowDelayDays, deliveries, applied, loc>>

\* markAsProcessing: the upsert writes status and created_at only
markAsProcessing(t) ==
  /\ pc[t] = "wh_mark"
  /\ LET key == KeyOf(loc[t].ev)
     IN webhook_idempotency' = MapPut(webhook_idempotency, key,
          [status |-> "processing",
           processed_at |-> IF key \in DOMAIN webhook_idempotency
                              THEN webhook_idempotency[key].processed_at
                              ELSE NullTime])
  /\ Goto(t, IF loc[t].ev.code = 0
               THEN (IF loc[t].ev.items THEN "wh_find" ELSE "wh_complete")
               ELSE "wh_find_fail")
  /\ UNCHANGED <<requests, now, concurrent, aux, transactions, ledger_entries, user_balances,
                 referrals, users, user_devices, processedWebhooks,
                 escrowDelayDays, deliveries, applied, loc>>

\* processWebhook, ResultCode 0: the select of the pending transaction
processWebhook_find(t) ==
  /\ pc[t] = "wh_find"
  /\ LET id == PendingByReference(loc[t].ev.checkout)
     IN IF id = 0
          THEN /\ SetLoc(t, loc[t])
               /\ Goto(t, "wh_complete")
          ELSE /\ SetLoc(t, [loc[t] EXCEPT !.tx = id,
                               !.snapUser = transactions[id].userId,
                               !.snapType = transactions[id].type,
                               !.snapAmount = transactions[id].amount,
                               !.snapEmail = transactions[id].email])
               /\ Goto(t, IF transactions[id].isSignup THEN "su_get"
                                                       ELSE "wh_update")
  /\ UNCHANGED <<requests, now, concurrent, aux, store, processedWebhooks, escrowDelayDays,
                 deliveries, applied>>

\* updateTransaction(id, status, updates): update ... where id = id; the
\* success updates carry the callback's amount. Every caller spreads keys
\* (mpesaReceiptNumber, phoneNumber, processedAt, error, resultCode) that are
\* no columns of transactions as the schema creates it: a store that checks
\* the columns refuses the whole update, and the returned error is not read
updateTransaction(txs, id, status, amount) ==
  IF strictSchema THEN txs
  ELSE [txs EXCEPT ![id] = [@ EXCEPT !.status = status, !.amount = amount]]

\* processWebhook, ordinary transaction: updateTransaction(..., 'completed'),
\* then recordTransaction of the row as it was read
processWebhook_update(t) ==
  /\ pc[t] = "wh_update"
  /\ transactions' = updateTransaction(transactions, loc[t].tx, "completed",
                                       loc[t].ev.amount)
  /\ SetLoc(t, RecordCall(loc[t], loc[t].tx, loc[t].snapUser, loc[t].snapType,
                          loc[t].snapAmount, "wh_complete"))
  /\ Goto(t, "led_getbal")
  /\ UNCHANGED <<requests, now, concurrent, aux, ledger_entries, user_balances, referrals,
                 users, user_devices, webhook_idempotency, processedWebhooks,
                 escrowDelayDays, deliveries, applied>>

\* processWebhook, nonzero ResultCode: the select of the pending transaction
processWebhook_findFailed(t) ==
  /\ pc[t] = "wh_find_fail"
  /\ LET id == PendingByReference(loc[t].ev.checkout)
     IN IF id = 0
          THEN /\ SetLoc(t, loc[t])
               /\ Goto(t, "wh_complete")
          ELSE /\ SetLoc(t, [loc[t] EXCEPT !.tx = id])
               /\ Goto(t, "wh_fail")
  /\ UNCHANGED <<requests, now, concurrent, aux, store, processedWebhooks, escrowDelayDays,
                 deliveries, applied>>

\* processWebhook, nonzero ResultCode: updateTransaction(id, 'failed', ...)
processWebhook_failed(t) ==
  /\ pc[t] = "wh_fail"
  /\ transactions' = updateTransaction(transactions, loc[t].tx, "failed",
                                       transactions[loc[t].tx].amount)
  /\ Goto(t, "wh_complete")
  /\ UNCHANGED <<requests, now, concurrent, aux, ledger_entries, user_balances, referrals,
                 users, user_devices, webhook_idempotency, processedWebhooks,
                 escrowDelayDays, deliveries, applied, loc>>

\* handleSignupPayment: the select of the transaction by id
handleSignupPayment_get(t) ==
  /\ pc[t] = "su_get"
  /\ LET row == transactions[loc[t].tx]
     IN SetLoc(t, [loc[t] EXCEPT !.snapUser = row.userId, !.snapType = row.type,
                     !.snapAmount = row.amount, !.snapEmail = row.email])
  /\ Goto(t, "su_user")
  /\ UNCHANGED <<requests, now, concurrent, aux, store, processedWebhooks, escrowDelayDays,
                 deliveries, applied>>

\* a faulty lookup that never finds the user
UserByEmailNone(email) == NullUser

\* .from('users').eq('email', email).single(): the id of the one user with
\* the email, NullUser when none or several have it
UserByEmail(email) ==
  LET hits == {u \in users : u.email = email}
  IN IF Cardinality(hits) = 1 THEN (CHOOSE u \in hits : TRUE).id ELSE NullUser

\* the id the store gives the inserted user
FreshUserIds == {i \in 1..Len(NewUserIds) :
                   \A u \in users : u.id # NewUserIds[i]}
FreshUserId == NewUserIds[CHOOSE i \in FreshUserIds : \A j \in FreshUserIds : i <= j]

\* handleSignupPayment: the select of the user by email
handleSignupPayment_user(t) ==
  /\ pc[t] = "su_user"
  /\ LET existingUser == UserByEmail(loc[t].snapEmail)
     IN IF existingUser # NullUser
          THEN /\ SetLoc(t, [loc[t] EXCEPT !.user = existingUser])
               /\ Goto(t, "su_ex_update")
          ELSE /\ SetLoc(t, loc[t])
               /\ Goto(t, "su_insert")
  /\ UNCHANGED <<requests, now, concurrent, aux, store, processedWebhooks, escrowDelayDays,
                 deliveries, applied>>

\* handleSignupPayment, existing user: updateTransaction(id, 'completed', ...)
handleSignupPayment_existingUpdate(t) ==
  /\ pc[t] = "su_ex_update"
  /\ transactions' = updateTransaction(transactions, loc[t].tx, "completed",
                                       loc[t].ev.amount)
  /\ Goto(t, "su_ex_attach")
  /\ UNCHANGED <<requests, now, concurrent, aux, ledger_entries, user_balances, referrals,
                 users, user_devices, webhook_idempotency, processedWebhooks,
                 escrowDelayDays, deliveries, applied, loc>>

\* handleSignupPayment, existing user: update transactions set user_id;
\* then recordTransaction
handleSignupPayment_existingAttach(t) ==
  /\ pc[t] = "su_ex_attach"
  /\ transactions' = [transactions EXCEPT ![loc[t].tx] =
                        [@ EXCEPT !.userId = loc[t].user]]
  /\ SetLoc(t, RecordCall(loc[t], loc[t].tx, loc[t].user, loc[t].snapType,
                          loc[t].snapAmount, "wh_complete"))
  /\ Goto(t, "led_getbal")
  /\ UNCHANGED <<requests, now, concurrent, aux, ledger_entries, user_balances, referrals,
                 users, user_devices, webhook_idempotency, processedWebhooks,
                 escrowDelayDays, deliveries, applied>>

\* handleSignupPayment, new user: the insert into users
handleSignupPayment_insertUser(t) ==
  /\ pc[t] = "su_insert"
  /\ FreshUserIds # {}
  /\ users' = users \cup {[id |-> FreshUserId, email |-> loc[t].snapEmail,
                           phone |-> "phone"]}
  /\ SetLoc(t, [loc[t] EXCEPT !.user = FreshUserId])
  /\ Goto(t, "su_new_tx")
  /\ UNCHANGED <<requests, now, concurrent, aux, transactions, ledger_entries, user_balances,
                 referrals, user_devices, webhook_idempotency,
                 processedWebhooks, escrowDelayDays, deliveries, applied>>

\* handleSignupPayment, new user: update transactions set user_id,
\* status = 'completed'
handleSignupPayment_newUpdate(t) ==
  /\ pc[t] = "su_new_tx"
  /\ transactions' = [transactions EXCEPT ![loc[t].tx] =
                        [@ EXCEPT !.userId = loc[t].user,
                                  !.status = "completed"]]
  /\ Goto(t, "su_device")
  /\ UNCHANGED <<requests, now, concurrent, aux, ledger_entries, user_balances, referrals,
                 users, user_devices, webhook_idempotency, processedWebhooks,
                 escrowDelayDays, deliveries, applied, loc>>

\* handleSignupPayment, new user: the upsert into user_devices; then
\* recordTransaction
handleSignupPayment_device(t) ==
  /\ pc[t] = "su_device"
  /\ user_devices' = user_devices \cup
       {[user_id |-> loc[t].user, fingerprint_hash |-> loc[t].snapEmail]}
  /\ SetLoc(t, RecordCall(loc[t], loc[t].tx, loc[t].user, loc[t].snapType,
                          loc[t].snapAmount, "wh_complete"))
  /\ Goto(t, "led_getbal")
  /\ UNCHANGED <<requests, now, concurrent, aux, transactions, ledger_entries, user_balances,
                 referrals, users, webhook_idempotency, processedWebhooks,
                 escrowDelayDays, deliveries, applied>>

\* new DarajaWebhookService(supabase, ledgerService): the optional third
\* argument, the audit log service, is not passed
auditLogService == FALSE

\* markAsCompleted: the in-memory entry and the upsert of the record; then
\* 'webhook_processed' is logged if (this.auditLogService), and the
\* response is 'Webhook processed successfully'
markAsCompleted(t) ==
  /\ pc[t] = "wh_complete"
  /\ LET key == KeyOf(loc[t].ev)
     IN /\ processedWebhooks' = [processedWebhooks EXCEPT ![loc[t].proc] =
                                   MapPut(@, key, now)]
        /\ webhook_idempotency' = MapPut(webhook_idempotency, key,
             [status |-> "completed", processed_at |-> now])
        /\ applied' = applied \cup
             {[key |-> key, at |-> now,
               tx |-> IF loc[t].ev.code = 0 THEN loc[t].tx ELSE 0]}
  /\ SetLoc(t, [loc[t] EXCEPT !.resp = "processed",
                    !.audit = IF auditLogService THEN "webhook_processed"
                                                 ELSE "none"])
  /\ Goto(t, "done")
  /\ UNCHANGED <<requests, now, concurrent, aux, transactions, ledger_entries, user_balances,
                 referrals, users, user_devices, escrowDelayDays, deliveries>>

\* ---------------------------------------------------------------- index.ts
\* POST /api/signup: rejects an email that has a user, else inserts the
\* pending signup transaction (deposit, 250, reference = checkoutRequestId,
\* a uuid the route makes before it initiates the STK push)
signup(t, email) ==
  /\ CanStart(t)
  /\ HasTxRoom
  /\ UserByEmail(email) = NullUser
  /\ transactions' = Append(transactions,
       [userId |-> NullUser, type |-> "deposit", amount |-> SignupAmount,
        status |-> "pending", ref |-> Reference("CO", Len(transactions) + 1),
        isSignup |-> TRUE, email |-> email])
  /\ UNCHANGED <<now, concurrent, aux, ledger_entries, user_balances, referrals,
                 users, user_devices, webhook_idempotency, processedWebhooks,
                 escrowDelayDays, deliveries, applied, pc, loc>>

\* a request handler outside the core records a pending transaction of a
\* user (a deposit, a withdrawal or a fee) that a callback settles later
insertPendingTransaction(t, userId, type, amount) ==
  /\ CanStart(t)
  /\ HasTxRoom
  /\ transactions' = Append(transactions,
       [userId |-> userId, type |-> type, amount |-> amount,
        status |-> "pending", ref |-> Reference("CO", Len(transactions) + 1),
        isSignup |-> FALSE, email |-> ""])
  /\ UNCHANGED <<now, concurrent, aux, ledger_entries, user_balances, referrals,
                 users, user_devices, webhook_idempotency, processedWebhooks,
                 escrowDelayDays, deliveries, applied, pc, loc>>

\* ------------------------------------------------------------ environment
\* the clock advances between requests
Tick ==
  /\ AllIdle
  /\ now < MaxTime
  /\ now' = now + 1
  /\ UNCHANGED <<requests, concurrent, aux, store, processedWebhooks, escrowDelayDays,
                 deliveries, applied, pc, loc>>

\* the request has answered; its locals are gone
Finish(t) ==
  /\ pc[t] = "done"
  /\ Goto(t, "idle")
  /\ SetLoc(t, InitLoc)
  /\ UNCHANGED <<requests, now, concurrent, aux, store, processedWebhooks, escrowDelayDays,
                 deliveries, applied>>

Next ==
  \/ Tick
  \/ \E t \in Tasks :
       \/ Finish(t)
       \/ \E u \in BalanceReaders, f \in BOOLEAN : getUserBalance(t, u, f)
       \/ createLedgerEntry_getUserBalance(t)
       \/ computeBalanceFromTransactions_read(t)
       \/ computeBalanceFromTransactions_write(t)
       \/ createLedgerEntry_insert(t)
       \/ updateUserBalanceCache(t)
       \/ \E a \in Requesters, b \in ExistingUsers, m \in ReferralAmounts :
            a # b /\ createReferral(t, a, b, m)
       \/ createReferral_transaction(t)
       \/ processEscrowReleases(t)
       \/ processEscrowReleases_loop(t)
       \/ \E r \in 1..MaxRef : releaseEscrow(t, r)
       \/ releaseEscrow_fetch(t)
       \/ releaseEscrow_paid(t)
       \/ releaseEscrow_find(t)
       \/ releaseEscrow_update(t)
       \/ releaseEscrow_return(t)
       \/ \E r \in 1..MaxRef : cancelReferral(t, r)
       \/ cancelReferral_fetch(t)
       \/ cancelReferral_referral(t)
       \/ cancelReferral_transaction(t)
       \/ \E ev \in Events, p \in ProcChoices : processWebhook(t, ev, p)
       \/ checkIdempotency(t)
       \/ checkIdempotency_cleanup(t)
       \/ markAsProcessing(t)
       \/ processWebhook_find(t)
       \/ processWebhook_update(t)
       \/ processWebhook_findFailed(t)
       \/ processWebhook_failed(t)
       \/ handleSignupPayment_get(t)
       \/ handleSignupPayment_user(t)
       \/ handleSignupPayment_existingUpdate(t)
       \/ handleSignupPayment_existingAttach(t)
       \/ handleSignupPayment_insertUser(t)
       \/ handleSignupPayment_newUpdate(t)
       \/ handleSignupPayment_device(t)
       \/ markAsCompleted(t)
       \/ \E e \in Emails : signup(t, e)
       \/ \E u \in Requesters, ty \in RequestTypes, m \in RequestAmounts :
            insertPendingTransaction(t, u, ty, m)

\* one request at a time
InitSequential == Init /\ concurrent = FALSE
Spec == InitSequential /\ [][Next]_vars
\* the requests of the tasks interleave at every awaited store call
InitConcurrent == Init /\ concurrent = TRUE
SpecConc == InitConcurrent /\ [][Next]_vars

\* ================================================================ claims
EntriesOf(txId) ==
  {k \in 1..Len(ledger_entries) : ledger_entries[k].transactionId = txId}
UsersWithEmail(email) == {u \in users : u.email = email}
Quiescent == \A s \in Tasks : pc[s] \in {"idle", "done"}

RECURSIVE SumAmounts(_)
SumAmounts(S) ==
  IF S = {} THEN 0
  ELSE LET i == CHOOSE x \in S : TRUE
       IN transactions[i].amount + SumAmounts(S \ {i})

\* a delivery with this key was answered 'processed' less than 24 hours ago
ProcessedRecently(key) ==
  \E a \in applied : a.key = key /\ now - a.at < IDEMPOTENCY_WINDOW_MS

\* what the first delivery of the key left behind: one ledger entry for the
\* transaction it completed and, for a signup, one user with the email
AppliedOnce(key) ==
  \A a \in applied :
    (a.key = key /\ a.tx # 0) =>
      /\ Cardinality(EntriesOf(a.tx)) = 1
      /\ transactions[a.tx].isSignup =>
           Cardinality(UsersWithEmail(transactions[a.tx].email)) = 1

\* C1: a provider event that was processed to completion and is delivered
\* again less than 24 hours later, to the same process or to one whose
\* in-memory map is empty, is answered 'already processed' and changes no
\* table; afterwards the transaction it matched has exactly one ledger
\* entry and a signup's email has exactly one user.
C1_DuplicateDeliveryIsNoOp ==
  [][\A t \in Tasks :
       (/\ pc[t] = "wh_check"
        /\ pc'[t] # "wh_check"
        /\ ProcessedRecently(KeyOf(loc[t].ev)))
       => /\ pc'[t] = "done"
          /\ loc'[t].resp = "already processed"
          /\ store' = store
          /\ applied' = applied
          /\ AppliedOnce(KeyOf(loc[t].ev))']_vars

C1_Witness ==
  \E t \in Tasks :
    /\ pc[t] = "done"
    /\ loc[t].op = "webhook"
    /\ loc[t].resp = "already processed"
    /\ loc[t].proc = ProcNames[2]
    /\ processedWebhooks[ProcNames[1]] # <<>>
    /\ \E a \in applied :
         /\ a.key = KeyOf(loc[t].ev)
         /\ a.tx # 0
         /\ transactions[a.tx].isSignup

\* the balance identity of the data model: credits minus debits over the
\* user's completed transactions
CompletedOf(userId, types) ==
  {i \in 1..Len(transactions) :
     /\ transactions[i].userId = userId
     /\ transactions[i].status = "completed"
     /\ transactions[i].type \in types}
LedgerTotal(userId) ==
  SumAmounts(CompletedOf(userId, {"deposit", "referral_payout", "escrow_release"}))
    - SumAmounts(CompletedOf(userId, {"withdrawal", "fee"}))

\* C2: getUserBalance(u, forceRecompute = true) returns as totalBalance the
\* completed credits minus the completed debits of u (pending, failed and
\* cancelled transactions count for nothing), and a second call with no
\* write in between returns the same total, escrow and available balance.
C2_BalanceIdentity ==
  \A t \in Tasks :
    (pc[t] = "done" /\ loc[t].op = "balance" /\ loc[t].force) =>
      /\ loc[t].bal.total = LedgerTotal(loc[t].user)
      /\ LET again == computeBalance(transactions, loc[t].user)
         IN /\ again.total = loc[t].bal.total
            /\ again.escrow = loc[t].bal.escrow
            /\ again.available = loc[t].bal.available

C2_Witness ==
  \E t \in Tasks :
    /\ pc[t] = "done" /\ loc[t].op = "balance" /\ loc[t].force
    /\ loc[t].bal.total < 0
    /\ \E i \in 1..Len(transactions) :
         /\ transactions[i].userId = loc[t].user
         /\ transactions[i].status \in {"pending", "failed"}
         /\ transactions[i].type \in {"withdrawal", "fee"}

C4_CreationStep ==
  \A t \in Tasks :
    (pc[t] = "done" /\ loc[t].op = "create") =>
      LET before == loc[t].pre[loc[t].user]
          after == computeBalance(transactions, loc[t].user)
      IN /\ after.escrow = before.escrow + loc[t].snapAmount
         /\ after.total = before.total
         /\ after.available = before.available

\* the referrals of a sweep's selection that pay the user
PaysTo(selection, userId) ==
  {r \in selection : referrals[r].referrerId = userId}
RECURSIVE SumReferrals(_)
SumReferrals(S) ==
  IF S = {} THEN 0
  ELSE LET r == CHOOSE x \in S : TRUE
       IN referrals[r].amount + SumReferrals(S \ {r})

C6_NoEarlyRelease ==
  /\ [][\A t \in Tasks :
          (/\ pc[t] = "re_fetch"
           /\ pc'[t] # "re_fetch"
           /\ loc[t].ref \in 1..Len(referrals)
           /\ referrals[loc[t].ref].status = "escrow"
           /\ referrals[loc[t].ref].releaseDate > now)
          => /\ loc'[t].resp = "release date not reached"
             /\ pc'[t] \in {"done", "sw_loop"}
             /\ store' = store]_vars
  /\ [](\A r \in 1..Len(referrals) :
          referrals[r].status = "paid" => referrals[r].releaseDate <= now)

C6_Witness ==
  \E t \in Tasks :
    /\ pc[t] = "done" /\ loc[t].op = "release"
    /\ loc[t].resp = "release date not reached"
    /\ referrals[loc[t].ref].status = "escrow"
    /\ referrals[loc[t].ref].releaseDate > now

C7_Witness ==
  \E t \in Tasks :
    /\ pc[t] = "done" /\ loc[t].op = "release"
    /\ loc[t].resp = "not found or not in escrow"
    /\ loc[t].ref \in 1..Len(referrals)
    /\ referrals[loc[t].ref].status = "paid"
    /\ \E i \in 1..Len(transactions) :
         /\ transactions[i].ref = RefOfReferral(loc[t].ref)
         /\ transactions[i].type = "escrow_release"
         /\ Cardinality(EntriesOf(i)) = 1

\* C8: a referral's status only moves escrow -> paid or escrow -> cancelled;
\* paid and cancelled are terminal, so a paid referral is never cancelled.
C8_ReferralStatusMonotonic ==
  [][\A r \in 1..Len(referrals) :
       \/ referrals'[r].status = referrals[r].status
       \/ /\ referrals[r].status = "escrow"
          /\ referrals'[r].status \in {"paid", "cancelled"}]_vars

\* C9: whenever no operation is in flight, every completed transaction and
\* every escrow_release transaction has exactly one ledger entry.
C9_OneEntryPerCompleted ==
  Quiescent =>
    \A i \in 1..Len(transactions) :
      (\/ transactions[i].status = "completed"
       \/ transactions[i].type = "escrow_release")
      => Cardinality(EntriesOf(i)) = 1

C9_Witness ==
  /\ Quiescent
  /\ \E i, j \in 1..Len(transactions) :
       /\ transactions[i].type = "escrow_release"
       /\ transactions[i].status = "completed"
       /\ transactions[j].type \in {"deposit", "withdrawal", "fee"}
       /\ transactions[j].status = "completed"

\* C10: no transaction whose status is pending or failed has a ledger
\* entry, also when a success and a failure callback for one
\* CheckoutRequestID with different MerchantRequestIDs run concurrently.
C10_NoEntryUnlessCompleted ==
  \A i \in 1..Len(transactions) :
    transactions[i].status \in {"pending", "failed"} => EntriesOf(i) = {}

\* the identity of the data model on one balance
BalanceIdentity(balance) ==
  balance.available = balance.total - balance.escrow

\* C11: every balance computeBalanceFromTransactions or getUserBalance
\* returns, and every row of the user_balances cache, has
\* availableBalance = totalBalance - escrowBalance, in every reachable state
\* and however the cache writers interleave.
C11_AvailableIdentity ==
  /\ \A u \in UserIds :
       user_balances[u].exists => BalanceIdentity(user_balances[u])
  /\ \A t \in Tasks : BalanceIdentity(loc[t].bal)

C11_Witness ==
  \E t, s \in Tasks :
    /\ t # s
    /\ pc[t] = "done" /\ loc[t].op = "balance"
    /\ loc[t].bal.escrow > 0
    /\ user_balances[loc[t].user].exists
    /\ user_balances[loc[t].user].escrow > 0
    /\ pc[s] \in {"cmp_write", "led_upsert"}
    /\ loc[s].user = loc[t].user

\* ------------------------------------------------------------------------
\* FraudPreventionService and the referral route POST /api/referrals.
\* The gate reads referral and device histories far longer than the ledger
\* model holds, so it has its own tables, kept in the record fraud, with the
\* clock in minutes.  One action per awaited store call.
MaxRecent == 11
MaxEarlier == 10
MaxOwnDevices == 4
MaxFraudRequests == 2
MaxFraudTicks == 1

VelocityWindowMinutes == 60
FraudThreshold == 70
ScoreCap == 100
RapidLimit == 20
FraudStartMinutes == 3000
FraudTickMinutes == 45

Referrer == 1

ReferralRows(n, at, first, dup) ==
  [i \in 1..n |->
     [referrer_id |-> Referrer,
      referred_id |-> IF dup THEN 100 ELSE 100 + first + i,
      created_at |-> at]]

\* the referrals table before the request, oldest row first
ReferralHistory(old, back, nEarlier, nRecent, dup) ==
  (IF back
     THEN <<[referrer_id |-> 2, referred_id |-> Referrer, created_at |-> 0]>>
     ELSE <<>>)
  \o (IF old
        THEN <<[referrer_id |-> Referrer, referred_id |-> 3, created_at |-> 0]>>
        ELSE <<>>)
  \o ReferralRows(nEarlier, FraudStartMinutes - 600, 0, dup)
  \o ReferralRows(nRecent, FraudStartMinutes - 30, nEarlier, dup)

\* the user_devices table before the request
DeviceHistory(own, shared) ==
  {[user_id |-> Referrer, fingerprint_hash |-> 10 + i] : i \in 1..own}
  \cup (IF shared THEN {[user_id |-> 2, fingerprint_hash |-> 1]} ELSE {})

NoCheck == [isFraudulent |-> FALSE, riskScore |-> 0, reasons |-> <<>>]

InitFraud ==
  /\ InitTables
  /\ concurrent = FALSE
  /\ escrowDelayDays \in DelayChoices
  /\ limits = ServiceOff
  /\ admin = ServiceOff
  /\ strictSchema = TRUE
  /\ \E old, back, dup, shared \in BOOLEAN :
       \E nEarlier \in {0, MaxEarlier}, nRecent \in 0..MaxRecent,
          own \in 0..MaxOwnDevices :
         fraud = [pc |-> "idle",
                  clock |-> FraudStartMinutes,
                  referrals |->
                    ReferralHistory(old, back, nEarlier, nRecent, dup),
                  user_devices |-> DeviceHistory(own, shared),
                  transactions |-> <<>>,
                  audit_logs |-> <<>>,
                  request |-> [userId |-> 0, referredId |-> 0, fingerprint |-> 0,
                              isReferral |-> FALSE, route |-> FALSE],
                  acc |-> NoCheck,
                  referredIds |-> <<>>,
                  checks |-> <<>>,
                  result |-> NoCheck,
                  pre |-> [referrals |-> <<>>, transactions |-> <<>>,
                          clock |-> FraudStartMinutes],
                  served |-> 0,
                  ticks |-> 0]

\* a faulty threshold that flags a score of 60
IsFraudulentScoreLow(riskScore) == riskScore >= FraudThreshold - 10

\* isFraudulent: riskScore >= 70, of every sub-check
IsFraudulentScore(riskScore) == riskScore >= FraudThreshold

\* .eq('referrer_id', referrerId)
ReferralsBy(rows, referrerId) ==
  SelectSeq(rows, LAMBDA r : r.referrer_id = referrerId)

\* .gte('created_at', timeWindow): the referrer's rows inside the window
RecentReferrals(rows, referrerId, clock) ==
  SelectSeq(ReferralsBy(rows, referrerId),
            LAMBDA r : r.created_at >= clock - VelocityWindowMinutes)

\* the velocity limits on referralCount
checkReferralVelocityResult(referralCount) ==
  IF referralCount >= 10
    THEN [isFraudulent |-> TRUE, riskScore |-> 100,
          reasons |-> <<"Excessive referrals">>]
    ELSE LET high == referralCount >= 5
             moderate == referralCount >= 3
             riskScore == (IF high THEN 40 ELSE 0)
                          + (IF moderate THEN 20 ELSE 0)
         IN [isFraudulent |-> IsFraudulentScore(riskScore),
             riskScore |-> riskScore,
             reasons |->
               (IF high THEN <<"High referral velocity">> ELSE <<>>)
               \o (IF moderate
                     THEN <<"Moderate referral velocity">> ELSE <<>>)]

\* .in('referred_id', referredIds).eq('referrer_id', referrerId)
CircularRefs(rows, referredIds, referrerId) ==
  SelectSeq(rows, LAMBDA r :
    /\ r.referrer_id = referrerId
    /\ \E i \in 1..Len(referredIds) : referredIds[i] = r.referred_id)

\* .order('created_at', descending).limit(20): rows are stored oldest first
RecentAccounts(rows, referrerId) ==
  LET mine == ReferralsBy(rows, referrerId)
      n == Len(mine)
  IN IF n <= RapidLimit THEN mine ELSE SubSeq(mine, n - RapidLimit + 1, n)

AddScore(check, points, reason) ==
  [check EXCEPT !.riskScore = @ + points, !.reasons = Append(@, reason)]

FinishCheck(check) ==
  [check EXCEPT !.isFraudulent = IsFraudulentScore(check.riskScore)]

RECURSIVE TotalRiskScore(_)
TotalRiskScore(checks) ==
  IF checks = <<>> THEN 0
  ELSE Head(checks).riskScore + TotalRiskScore(Tail(checks))

RECURSIVE AllReasons(_)
AllReasons(checks) ==
  IF checks = <<>> THEN <<>>
  ELSE Head(checks).reasons \o AllReasons(Tail(checks))

\* a faulty cap that returns the sum as it is
UncappedScore(totalRiskScore) == totalRiskScore

\* Math.min(totalRiskScore, 100)
CappedScore(totalRiskScore) ==
  IF totalRiskScore < ScoreCap THEN totalRiskScore ELSE ScoreCap

\* the aggregation of performFraudCheck
AggregateChecks(checks) ==
  [isFraudulent |->
     \/ \E i \in 1..Len(checks) : checks[i].isFraudulent
     \/ TotalRiskScore(checks) >= FraudThreshold,
   riskScore |-> CappedScore(TotalRiskScore(checks)),
   reasons |-> AllReasons(checks)]

\* a faulty route that never blocks
BlockedNever(fraudCheck) == FALSE

\* if (fraudCheck.isFraudulent) of the route
Blocked(fraudCheck) == fraudCheck.isFraudulent

FraudFrame == UNCHANGED <<core, limits, admin, strictSchema>>

StartFraudRequest(request) ==
  /\ fraud.pc = "idle"
  /\ fraud.served < MaxFraudRequests
  /\ fraud' = [fraud EXCEPT
       !.pc = "dev_duplicateAccounts",
       !.request = request,
       !.acc = NoCheck,
       !.referredIds = <<>>,
       !.checks = <<>>,
       !.result = NoCheck,
       !.pre = [referrals |-> fraud.referrals,
                transactions |-> fraud.transactions,
                clock |-> fraud.clock],
       !.served = @ + 1]
  /\ FraudFrame

\* POST /api/referrals: the route calls performFraudCheck(..., true)
postReferrals(referrerId, referredId, fingerprint) ==
  StartFraudRequest([userId |-> referrerId, referredId |-> referredId,
                     fingerprint |-> fingerprint,
                     isReferral |-> TRUE, route |-> TRUE])

\* performFraudCheck called on its own
performFraudCheck(userId, fingerprint, isReferral) ==
  StartFraudRequest([userId |-> userId, referredId |-> 0,
                     fingerprint |-> fingerprint,
                     isReferral |-> isReferral, route |-> FALSE])

checkDeviceFingerprint_duplicateAccounts ==
  /\ fraud.pc = "dev_duplicateAccounts"
  /\ LET duplicateAccounts ==
           {d \in fraud.user_devices :
              /\ d.fingerprint_hash = fraud.request.fingerprint
              /\ d.user_id # fraud.request.userId}
     IN fraud' = [fraud EXCEPT
          !.pc = "dev_recentChanges",
          !.acc = IF duplicateAccounts # {}
                    THEN AddScore(NoCheck, 50, "Device fingerprint shared")
                    ELSE NoCheck]
  /\ FraudFrame

checkDeviceFingerprint_recentChanges ==
  /\ fraud.pc = "dev_recentChanges"
  /\ LET mine == {d \in fraud.user_devices :
                    d.user_id = fraud.request.userId}
         recentChanges == IF Cardinality(mine) > 5 THEN 5
                          ELSE Cardinality(mine)
     IN fraud' = [fraud EXCEPT
          !.pc = "dev_upsert",
          !.acc = IF recentChanges > 3
                    THEN AddScore(@, 30, "Multiple device changes")
                    ELSE @]
  /\ FraudFrame

\* the upsert carries no id: it inserts, and UNIQUE(user_id,
\* fingerprint_hash) refuses a pair that is already stored
checkDeviceFingerprint_upsert ==
  /\ fraud.pc = "dev_upsert"
  /\ fraud' = [fraud EXCEPT
       !.pc = IF fraud.request.isReferral THEN "velocity" ELSE "aggregate",
       !.user_devices = @ \cup
          {[user_id |-> fraud.request.userId,
            fingerprint_hash |-> fraud.request.fingerprint]},
       !.checks = Append(@, FinishCheck(fraud.acc))]
  /\ FraudFrame

checkReferralVelocity ==
  /\ fraud.pc = "velocity"
  /\ LET recentReferrals ==
           RecentReferrals(fraud.referrals, fraud.request.userId, fraud.clock)
     IN fraud' = [fraud EXCEPT
          !.pc = "abuse_referrals",
          !.checks =
             Append(@, checkReferralVelocityResult(Len(recentReferrals)))]
  /\ FraudFrame

detectReferralAbuse_referrals ==
  /\ fraud.pc = "abuse_referrals"
  /\ LET referrals_ == ReferralsBy(fraud.referrals, fraud.request.userId)
     IN fraud' = [fraud EXCEPT
          !.pc = "abuse_circularRefs",
          !.acc = NoCheck,
          !.referredIds =
             [i \in 1..Len(referrals_) |-> referrals_[i].referred_id]]
  /\ FraudFrame

detectReferralAbuse_circularRefs ==
  /\ fraud.pc = "abuse_circularRefs"
  /\ LET circularRefs ==
           CircularRefs(fraud.referrals, fraud.referredIds,
                        fraud.request.userId)
         circular == IF Len(circularRefs) > 0
                       THEN AddScore(NoCheck, 60, "Circular referral pattern")
                       ELSE NoCheck
     IN fraud' = [fraud EXCEPT
          !.pc = "abuse_recentAccounts",
          !.acc = IF Len(fraud.referredIds) #
                       Cardinality({fraud.referredIds[i] :
                                      i \in 1..Len(fraud.referredIds)})
                    THEN AddScore(circular, 50, "Duplicate referrals")
                    ELSE circular]
  /\ FraudFrame

detectReferralAbuse_recentAccounts ==
  /\ fraud.pc = "abuse_recentAccounts"
  /\ LET recentAccounts ==
           RecentAccounts(fraud.referrals, fraud.request.userId)
         timeSpan == recentAccounts[Len(recentAccounts)].created_at
                     - recentAccounts[1].created_at
         acc == IF /\ Len(recentAccounts) >= 10
                   /\ timeSpan < 24 * 60
                  THEN AddScore(fraud.acc, 70, "Suspicious pattern")
                  ELSE fraud.acc
     IN fraud' = [fraud EXCEPT
          !.pc = "aggregate",
          !.checks = Append(@, FinishCheck(acc))]
  /\ FraudFrame

\* the aggregation and, in the route, the decision on its result
performFraudCheck_return ==
  /\ fraud.pc = "aggregate"
  /\ LET result == AggregateChecks(fraud.checks)
     IN fraud' = [fraud EXCEPT
          !.result = result,
          !.pc = IF ~fraud.request.route THEN "idle"
                 ELSE IF Blocked(result) THEN "blocked"
                 ELSE "createReferral"]
  /\ FraudFrame

\* auditLogService.log('referral_blocked', ...) and the 403 response
postReferrals_blocked ==
  /\ fraud.pc = "blocked"
  /\ fraud' = [fraud EXCEPT
       !.pc = "idle",
       !.audit_logs = Append(@, [action |-> "referral_blocked",
                                  user_id |-> fraud.request.userId,
                                  resource_id |-> 0])]
  /\ FraudFrame

\* createReferral: the insert of the referral row
postReferrals_createReferral ==
  /\ fraud.pc = "createReferral"
  /\ fraud' = [fraud EXCEPT
       !.pc = "createReferral_transaction",
       !.referrals = Append(@, [referrer_id |-> fraud.request.userId,
                                referred_id |-> fraud.request.referredId,
                                created_at |-> fraud.clock])]
  /\ FraudFrame

\* createReferral: the insert of the REF-<id> referral_payout transaction
postReferrals_createReferral_transaction ==
  /\ fraud.pc = "createReferral_transaction"
  /\ fraud' = [fraud EXCEPT
       !.pc = "created",
       !.transactions = Append(@, [type |-> "referral_payout",
                                   user_id |-> fraud.request.userId,
                                   referral |-> Len(fraud.referrals)])]
  /\ FraudFrame

\* auditLogService.log('referral_created', ...) and the response
postReferrals_created ==
  /\ fraud.pc = "created"
  /\ fraud' = [fraud EXCEPT
       !.pc = "idle",
       !.audit_logs = Append(@, [action |-> "referral_created",
                                  user_id |-> fraud.request.userId,
                                  resource_id |-> Len(fraud.referrals)])]
  /\ FraudFrame

\* time passes between two requests
FraudTick ==
  /\ fraud.pc = "idle"
  /\ fraud.ticks < MaxFraudTicks
  /\ fraud' = [fraud EXCEPT !.clock = @ + FraudTickMinutes, !.ticks = @ + 1]
  /\ FraudFrame

NextFraud ==
  \/ \E referredId \in {2}, fingerprint \in {1, 2} :
       postReferrals(Referrer, referredId, fingerprint)
  \/ \E fingerprint \in {1, 2}, isReferral \in BOOLEAN :
       performFraudCheck(Referrer, fingerprint, isReferral)
  \/ checkDeviceFingerprint_duplicateAccounts
  \/ checkDeviceFingerprint_recentChanges
  \/ checkDeviceFingerprint_upsert
  \/ checkReferralVelocity
  \/ detectReferralAbuse_referrals
  \/ detectReferralAbuse_circularRefs
  \/ detectReferralAbuse_recentAccounts
  \/ performFraudCheck_return
  \/ postReferrals_blocked
  \/ postReferrals_createReferral
  \/ postReferrals_createReferral_transaction
  \/ postReferrals_created
  \/ FraudTick

SpecFraud == InitFraud /\ [][NextFraud]_vars

\* ------------------------------------------------- claims on the fraud gate
\* the request's fraud check has returned
FraudChecked ==
  /\ fraud.checks # <<>>
  /\ fraud.pc \in {"idle", "blocked", "createReferral",
                   "createReferral_transaction", "created"}

\* the number of referrals of the referrer inside the window, as the
\* velocity check of the request in flight saw it
WindowCount ==
  Len(RecentReferrals(fraud.pre.referrals, fraud.request.userId,
                      fraud.pre.clock))

VelocityChecked == fraud.pc = "abuse_referrals"

\* C12: checkReferralVelocity scores by the number n of referrals inside the
\* window: n >= 10 gives exactly 100 and fraudulent with no further scoring,
\* 5 <= n < 10 gives exactly 40, 3 <= n < 5 gives exactly 20, n < 3 gives 0,
\* and isFraudulent holds exactly when the total is >= 70.
C12_VelocityTable ==
  VelocityChecked =>
    LET n == WindowCount
        r == fraud.checks[2]
    IN /\ r.riskScore = IF n >= 10 THEN 100
                        ELSE IF n >= 5 THEN 40
                        ELSE IF n >= 3 THEN 20
                        ELSE 0
       /\ n >= 10 => r.isFraudulent /\ Len(r.reasons) = 1
       /\ r.isFraudulent <=> r.riskScore >= 70

InReasons(reason, check) ==
  \E i \in 1..Len(check.reasons) : check.reasons[i] = reason

\* C13: with exactly 3, exactly 5 and exactly 10 referrals inside the
\* 60-minute window, checkReferralVelocity reports a non-fraudulent result
\* with the moderate-velocity reason, a non-fraudulent result with the
\* high-velocity reason, and a fraudulent result; the route then blocks the
\* request of the fraudulent one.
C13_VelocityBoundaries ==
  /\ VelocityChecked =>
       LET r == fraud.checks[2]
       IN /\ WindowCount = 3 =>
               ~r.isFraudulent /\ InReasons("Moderate referral velocity", r)
          /\ WindowCount = 5 =>
               ~r.isFraudulent /\ InReasons("High referral velocity", r)
          /\ WindowCount = 10 => r.isFraudulent
  /\ (/\ fraud.pc \in {"createReferral", "createReferral_transaction",
                       "created"}
      /\ fraud.request.route)
       => WindowCount # 10

C13_Witness ==
  /\ VelocityChecked
  /\ WindowCount = 5
  /\ ~fraud.checks[2].isFraudulent
  /\ fraud.request.route

DeviceReasons == {"Device fingerprint shared", "Multiple device changes"}
VelocityReasons ==
  {"Excessive referrals", "High referral velocity",
   "Moderate referral velocity"}
AbuseReasons ==
  {"Circular referral pattern", "Duplicate referrals", "Suspicious pattern"}

ReasonsWithin(check, S) ==
  \A i \in 1..Len(check.reasons) : check.reasons[i] \in S

\* C14: performFraudCheck always runs the device check and runs the velocity
\* and abuse checks only when isReferral is true; its riskScore is
\* min(sum of the sub-check scores, 100); isFraudulent holds exactly when
\* some sub-check reported isFraudulent or the sum is >= 70; reasons is the
\* concatenation of the sub-checks' reasons in the order device, velocity,
\* abuse.
C14_Aggregation ==
  FraudChecked =>
    LET c == fraud.checks
        n == Len(c)
        sum == IF n = 3 THEN c[1].riskScore + c[2].riskScore + c[3].riskScore
               ELSE c[1].riskScore
    IN /\ n = IF fraud.request.isReferral THEN 3 ELSE 1
       /\ ReasonsWithin(c[1], DeviceReasons)
       /\ [user_id |-> fraud.request.userId,
           fingerprint_hash |-> fraud.request.fingerprint]
            \in fraud.user_devices
       /\ n = 3 => /\ ReasonsWithin(c[2], VelocityReasons)
                   /\ c[2] = checkReferralVelocityResult(WindowCount)
                   /\ ReasonsWithin(c[3], AbuseReasons)
       /\ fraud.result.riskScore = IF sum < 100 THEN sum ELSE 100
       /\ fraud.result.isFraudulent <=>
            \/ \E i \in 1..n : c[i].isFraudulent
            \/ sum >= 70
       /\ fraud.result.reasons =
            IF n = 3 THEN c[1].reasons \o c[2].reasons \o c[3].reasons
            ELSE c[1].reasons

C14_Witness ==
  /\ FraudChecked
  /\ fraud.request.isReferral
  /\ fraud.checks[1].riskScore + fraud.checks[2].riskScore
       + fraud.checks[3].riskScore > 100
  /\ fraud.checks[1].riskScore > 0
  /\ fraud.checks[2].riskScore > 0
  /\ fraud.result.riskScore = 100

\* C15: every scoring function of the gate (checkDeviceFingerprint,
\* checkReferralVelocity, detectReferralAbuse, performFraudCheck) returns a
\* riskScore in 0..100, whatever the history.
C15_ScoreRange ==
  fraud.pc # "off" =>
    /\ \A i \in 1..Len(fraud.checks) : fraud.checks[i].riskScore \in 0..100
    /\ fraud.result.riskScore \in 0..100

\* C16: in the referral route, when performFraudCheck reports the request
\* fraudulent, no referral row and no referral_payout transaction is created
\* and a referral_blocked audit event is recorded; a referral and its
\* transaction are created only after the request's fraud check returned
\* isFraudulent = FALSE.
C16_FraudBlocks ==
  /\ [][(fraud.pc # "off" /\ fraud'.referrals # fraud.referrals)
          => /\ fraud.request.route
             /\ FraudChecked
             /\ ~fraud.result.isFraudulent]_vars
  /\ [][(fraud.pc # "off" /\ fraud'.transactions # fraud.transactions)
          => /\ fraud.request.route
             /\ FraudChecked
             /\ ~fraud.result.isFraudulent]_vars
  /\ [][(/\ fraud.pc \notin {"off", "idle"}
         /\ fraud'.pc = "idle"
         /\ fraud.request.route
         /\ fraud.result.isFraudulent)
          => /\ fraud'.referrals = fraud.pre.referrals
             /\ fraud'.transactions = fraud.pre.transactions
             /\ fraud'.audit_logs =
                  Append(fraud.audit_logs,
                         [action |-> "referral_blocked",
                          user_id |-> fraud.request.userId,
                          resource_id |-> 0])]_vars

C16_Witness ==
  /\ fraud.pc = "idle"
  /\ Len(fraud.audit_logs) = 2
  /\ fraud.audit_logs[1].action = "referral_created"
  /\ fraud.audit_logs[2].action = "referral_blocked"
  /\ fraud.result.isFraudulent
  /\ fraud.referrals = fraud.pre.referrals
  /\ Len(fraud.transactions) = 1

\* ------------------------------------------------------------------------
\* WithdrawalLimitsService and the route POST /api/withdrawals/check.
\* Withdrawals are completed outside this repository, so the limiter is
\* modelled over its own copy of users and transactions, in the record
\* limits, with the clock in days.
MaxChecks == 2
MaxWithdrawals == 1
MaxLimitTicks == 1

\* the calendar month, taken as 30 days
MonthDays == 30
\* amount: z.number().positive()
CheckAmounts == {200, 500, 4500}

tiers ==
  <<[tier |-> 1, name |-> "Basic", dailyLimit |-> 5000,
     monthlyLimit |-> 50000, minTransactions |-> 0, minAccountAge |-> 0,
     kycVerified |-> FALSE],
    [tier |-> 2, name |-> "Standard", dailyLimit |-> 20000,
     monthlyLimit |-> 200000, minTransactions |-> 5, minAccountAge |-> 7,
     kycVerified |-> FALSE],
    [tier |-> 3, name |-> "Premium", dailyLimit |-> 100000,
     monthlyLimit |-> 1000000, minTransactions |-> 20, minAccountAge |-> 30,
     kycVerified |-> TRUE],
    [tier |-> 4, name |-> "Enterprise", dailyLimit |-> 500000,
     monthlyLimit |-> 5000000, minTransactions |-> 100, minAccountAge |-> 90,
     kycVerified |-> TRUE]>>

\* monthStart.setDate(1); monthStart.setHours(0, 0, 0, 0)
MonthStart(clock) == clock - (clock % MonthDays)

WithdrawalRow(status, amount, processed_at) ==
  [type |-> "withdrawal", status |-> status, amount |-> amount,
   processed_at |-> processed_at]

\* the user's transactions before the first check: completed deposits, a
\* withdrawal of last month, a pending one, and what was withdrawn earlier
\* this month and today
TransactionHistory(clock, deposits, monthUsed, todayUsed) ==
  [i \in 1..deposits |->
     [type |-> "deposit", status |-> "completed", amount |-> 10,
      processed_at |-> clock - MonthDays]]
  \o <<WithdrawalRow("completed", 700, clock - MonthDays),
       WithdrawalRow("pending", 300, clock)>>
  \o (IF monthUsed > 0
        THEN <<WithdrawalRow("completed", monthUsed, MonthStart(clock))>>
        ELSE <<>>)
  \o (IF todayUsed > 0
        THEN <<WithdrawalRow("completed", todayUsed, clock)>>
        ELSE <<>>)

InitLimits ==
  /\ InitTables
  /\ concurrent = FALSE
  /\ escrowDelayDays \in DelayChoices
  /\ fraud = ServiceOff
  /\ admin = ServiceOff
  /\ strictSchema = TRUE
  /\ \E clock \in {45, 59}, exists, kyc \in BOOLEAN,
        age \in {tiers[i].minAccountAge : i \in 1..4},
        deposits \in {tiers[i].minTransactions : i \in 1..4},
        monthUsed \in {0, 46000}, todayUsed \in {0, 4800, 6000} :
       limits = [pc |-> "idle",
                 clock |-> clock,
                 users |-> IF exists
                             THEN {[id |-> "A", created_at |-> clock - age,
                                    kyc_verified |-> kyc]}
                             ELSE {},
                 transactions |->
                   TransactionHistory(clock, deposits, monthUsed, todayUsed),
                 audit_logs |-> 0,
                 amount |-> 0,
                 accountAge |-> 0,
                 kycVerified |-> FALSE,
                 tier |-> tiers[1],
                 dailyUsed |-> 0,
                 result |-> [allowed |-> FALSE, reason |-> "",
                             dailyRemaining |-> 0, monthlyRemaining |-> 0,
                             currentTier |-> tiers[1]],
                 prev |-> [valid |-> FALSE],
                 checks |-> 0,
                 withdrawals |-> 0,
                 ticks |-> 0]

\* .select('id', { count: 'exact', head: true }): a HEAD request carries the
\* count and no rows, so data is null
SelectHead(rows) == [data |-> [isNull |-> TRUE, rows |-> <<>>],
                     count |-> Len(rows)]

\* transactions?.length || 0
LengthOrZero(data) == IF data.isNull THEN 0 ELSE Len(data.rows)

\* the loop over the tiers from the highest down
DetermineTier(transactionCount, accountAge, kycVerified) ==
  LET qualifies(i) ==
        /\ transactionCount >= tiers[i].minTransactions
        /\ accountAge >= tiers[i].minAccountAge
        /\ (~tiers[i].kycVerified \/ kycVerified)
      Q == {i \in 1..Len(tiers) : qualifies(i)}
  IN IF Q = {} THEN tiers[1]
     ELSE tiers[CHOOSE i \in Q : \A j \in Q : j <= i]

\* a faulty sum that counts every logged check as a reservation
UsedWithReservations(rows, since) ==
  LET found == SelectSeq(rows, LAMBDA tx :
                 /\ tx.type = "withdrawal"
                 /\ tx.status = "completed"
                 /\ tx.processed_at >= since)
  IN SumSeq([i \in 1..Len(found) |-> found[i].amount])
     + 100 * limits.audit_logs

\* the completed withdrawals processed since a date, summed
Used(rows, since) ==
  LET found == SelectSeq(rows, LAMBDA tx :
                 /\ tx.type = "withdrawal"
                 /\ tx.status = "completed"
                 /\ tx.processed_at >= since)
  IN SumSeq([i \in 1..Len(found) |-> found[i].amount])

\* a faulty headroom that is not clamped and lets the limit itself through
RemainingLoose(limit, used) == limit - used + 1

\* Math.max(0, limit - used)
Remaining(limit, used) == IF limit - used > 0 THEN limit - used ELSE 0

\* the decision of checkWithdrawalLimit
LimitCheck(tier, dailyUsed, monthlyUsed, amount) ==
  LET dailyRemaining == Remaining(tier.dailyLimit, dailyUsed)
      monthlyRemaining == Remaining(tier.monthlyLimit, monthlyUsed)
  IN IF amount > dailyRemaining
       THEN [allowed |-> FALSE, reason |-> "Daily limit exceeded",
             dailyRemaining |-> dailyRemaining,
             monthlyRemaining |-> monthlyRemaining, currentTier |-> tier]
     ELSE IF amount > monthlyRemaining
       THEN [allowed |-> FALSE, reason |-> "Monthly limit exceeded",
             dailyRemaining |-> dailyRemaining,
             monthlyRemaining |-> monthlyRemaining, currentTier |-> tier]
     ELSE [allowed |-> TRUE, reason |-> "",
           dailyRemaining |-> dailyRemaining - amount,
           monthlyRemaining |-> monthlyRemaining - amount,
           currentTier |-> tier]

LimitsFrame == UNCHANGED <<core, fraud, admin, strictSchema>>

\* POST /api/withdrawals/check calls checkWithdrawalLimit(userId, amount)
checkWithdrawalLimit(amount) ==
  /\ limits.pc = "idle"
  /\ limits.checks < MaxChecks
  /\ limits' = [limits EXCEPT !.pc = "getUserTier_user",
                              !.amount = amount,
                              !.checks = @ + 1]
  /\ LimitsFrame

getUserTier_user ==
  /\ limits.pc = "getUserTier_user"
  /\ limits' =
       IF limits.users = {}
         THEN [limits EXCEPT !.pc = "todayWithdrawals", !.tier = tiers[1]]
         ELSE LET user == CHOOSE u \in limits.users : TRUE
              IN [limits EXCEPT
                    !.pc = "getUserTier_transactions",
                    !.accountAge = limits.clock - user.created_at,
                    !.kycVerified = user.kyc_verified]
  /\ LimitsFrame

getUserTier_transactions ==
  /\ limits.pc = "getUserTier_transactions"
  /\ LET transactions_ ==
           SelectHead(SelectSeq(limits.transactions,
                                LAMBDA tx : tx.status = "completed")).data
         transactionCount == LengthOrZero(transactions_)
     IN limits' = [limits EXCEPT
          !.pc = "todayWithdrawals",
          !.tier = DetermineTier(transactionCount, limits.accountAge,
                                 limits.kycVerified)]
  /\ LimitsFrame

checkWithdrawalLimit_todayWithdrawals ==
  /\ limits.pc = "todayWithdrawals"
  /\ limits' = [limits EXCEPT
       !.pc = "monthWithdrawals",
       !.dailyUsed = Used(limits.transactions, limits.clock)]
  /\ LimitsFrame

checkWithdrawalLimit_monthWithdrawals ==
  /\ limits.pc = "monthWithdrawals"
  /\ limits' = [limits EXCEPT
       !.pc = "log",
       !.result =
          LimitCheck(limits.tier, limits.dailyUsed,
                     Used(limits.transactions, MonthStart(limits.clock)),
                     limits.amount)]
  /\ LimitsFrame

\* auditLogService.log('withdrawal_limit_checked', ...) and the response
postWithdrawalsCheck_log ==
  /\ limits.pc = "log"
  /\ limits' = [limits EXCEPT
       !.pc = "idle",
       !.audit_logs = @ + 1,
       !.prev = [valid |-> TRUE, amount |-> limits.amount,
                 result |-> limits.result, clock |-> limits.clock,
                 transactions |-> limits.transactions]]
  /\ LimitsFrame

\* a withdrawal completes, outside this service
completeWithdrawal(amount) ==
  /\ limits.pc = "idle"
  /\ limits.withdrawals < MaxWithdrawals
  /\ limits' = [limits EXCEPT
       !.transactions =
          Append(@, WithdrawalRow("completed", amount, limits.clock)),
       !.withdrawals = @ + 1]
  /\ LimitsFrame

\* midnight passes between two requests
LimitsTick ==
  /\ limits.pc = "idle"
  /\ limits.ticks < MaxLimitTicks
  /\ limits' = [limits EXCEPT !.clock = @ + 1, !.ticks = @ + 1]
  /\ LimitsFrame

NextLimits ==
  \/ \E amount \in CheckAmounts : checkWithdrawalLimit(amount)
  \/ getUserTier_user
  \/ getUserTier_transactions
  \/ checkWithdrawalLimit_todayWithdrawals
  \/ checkWithdrawalLimit_monthWithdrawals
  \/ postWithdrawalsCheck_log
  \/ \E amount \in CheckAmounts : completeWithdrawal(amount)
  \/ LimitsTick

SpecLimits == InitLimits /\ [][NextLimits]_vars

\* --------------------------------------------- claims on the limiter
\* checkWithdrawalLimit has computed its result
LimitChecked == limits.pc = "log"

RECURSIVE WithdrawnSince(_, _)
\* what the store holds as completed withdrawals processed on or after a day
WithdrawnSince(rows, since) ==
  IF rows = <<>> THEN 0
  ELSE (IF /\ Head(rows).type = "withdrawal"
           /\ Head(rows).status = "completed"
           /\ Head(rows).processed_at >= since
          THEN Head(rows).amount ELSE 0)
       + WithdrawnSince(Tail(rows), since)

AtLeastZero(n) == IF n < 0 THEN 0 ELSE n

CheckIsReadOnly ==
  [][limits.pc \notin {"off", "idle"}
       => /\ limits'.transactions = limits.transactions
          /\ limits'.users = limits.users
          /\ UNCHANGED <<transactions, ledger_entries, user_balances>>]_vars

\* C18: checkWithdrawalLimit is read-only (no transaction, ledger entry,
\* balance row or reservation is created or modified, approved or denied),
\* so a second identical check with no completed withdrawal in between
\* returns the same result as the first.
C18_RepeatSameResult ==
  /\ CheckIsReadOnly
  /\ [](( /\ LimitChecked
          /\ limits.prev.valid
          /\ limits.prev.amount = limits.amount
          /\ limits.prev.transactions = limits.transactions)
         => limits.result = limits.prev.result)

\* C18, amended: the same, for a second identical check made on the same
\* day as the first (the daily and monthly windows and the account age move
\* with the clock).
C18_RepeatSameResultSameDay ==
  /\ CheckIsReadOnly
  /\ [](( /\ LimitChecked
          /\ limits.prev.valid
          /\ limits.prev.amount = limits.amount
          /\ limits.prev.transactions = limits.transactions
          /\ limits.prev.clock = limits.clock)
         => limits.result = limits.prev.result)

C18_Witness ==
  /\ LimitChecked
  /\ limits.prev.valid
  /\ limits.prev.amount = limits.amount
  /\ limits.prev.transactions = limits.transactions
  /\ limits.prev.clock = limits.clock
  /\ limits.result.allowed
  /\ limits.result.dailyRemaining < 500

\* the tier the requirements give, from the store's own figures
RightfulTier ==
  IF limits.users = {} THEN tiers[1]
  ELSE LET user == CHOOSE u \in limits.users : TRUE
           completed == Len(SelectSeq(limits.transactions,
                                      LAMBDA tx : tx.status = "completed"))
           ok(i) == /\ completed >= tiers[i].minTransactions
                    /\ limits.clock - user.created_at
                         >= tiers[i].minAccountAge
                    /\ (tiers[i].kycVerified => user.kyc_verified)
       IN tiers[CHOOSE i \in 1..4 :
                  ok(i) /\ \A j \in 1..4 : ok(j) => j <= i]

\* C19: getUserTier(u) returns the highest of the four tiers whose every
\* requirement (completed transactions, account age in days, KYC when
\* required) u meets, and Basic when the user record is missing; a
\* KYC-verified user with 20 completed transactions and a 30-day-old account
\* gets Premium.
C19_HighestQualifyingTier ==
  limits.pc \in {"todayWithdrawals", "monthWithdrawals", "log"}
    => limits.tier = RightfulTier

\* ------------------------------------------------------------------------
\* AdminControlsService and the start-up of index.ts: the escrow delay.
\* admin holds the admin_controls row of escrow_delay_days and the module
\* variable of index.ts; escrowDelayDays is the field of the constructed
\* ReferralEscrowService.
MaxRestarts == 1

\* let escrowDelayDays = 7
DefaultEscrowDelayDays == 7

\* index.ts runs to its end before any promise callback: the service is
\* constructed with the module variable's first value
InitAdmin ==
  /\ InitTables
  /\ concurrent = FALSE
  /\ escrowDelayDays = DefaultEscrowDelayDays
  /\ fraud = ServiceOff
  /\ limits = ServiceOff
  /\ strictSchema = TRUE
  /\ admin = [pc |-> "on",
              control |-> [set |-> FALSE, value |-> 0],
              moduleDelay |-> DefaultEscrowDelayDays,
              loaded |-> FALSE,
              restarts |-> 0]

\* getSystemSettings().then(settings => escrowDelayDays = settings...):
\* getControl('escrow_delay_days') ?? 7 lands in the module variable
getSystemSettings_then ==
  /\ ~admin.loaded
  /\ admin' = [admin EXCEPT
       !.loaded = TRUE,
       !.moduleDelay = IF admin.control.set THEN admin.control.value
                       ELSE DefaultEscrowDelayDays]
  /\ UNCHANGED <<core, fraud, limits, strictSchema>>

\* PUT /api/admin/controls/escrow_delay_days by an admin: the upsert carries
\* a fresh id, so it inserts, and UNIQUE(key) refuses a second row
setControl(value) ==
  /\ AllIdle
  /\ ~admin.control.set
  /\ admin' = [admin EXCEPT !.control = [set |-> TRUE, value |-> value]]
  /\ UNCHANGED <<core, fraud, limits, strictSchema>>

\* the server process is started again: index.ts runs from the top
restart ==
  /\ AllIdle
  /\ admin.restarts < MaxRestarts
  /\ admin' = [admin EXCEPT !.moduleDelay = DefaultEscrowDelayDays,
                            !.loaded = FALSE,
                            !.restarts = @ + 1]
  /\ escrowDelayDays' = DefaultEscrowDelayDays
  /\ processedWebhooks' = [p \in Procs |-> <<>>]
  /\ UNCHANGED <<now, concurrent, store, deliveries, requests, applied,
                 pc, loc, fraud, limits, strictSchema>>

NextAdmin ==
  \/ getSystemSettings_then
  \/ \E value \in {1, 3} : setControl(value)
  \/ restart
  \/ Tick
  \/ \E t \in Tasks :
       \/ \E a \in Requesters, b \in ExistingUsers, m \in ReferralAmounts :
            a # b /\ createReferral(t, a, b, m)
       \/ createReferral_transaction(t)
       \/ Finish(t)

SpecAdmin == InitAdmin /\ [][NextAdmin]_vars

\* C20: the escrow delay is admin-configurable: once an admin has set
\* escrow_delay_days to d, every referral created afterwards through the
\* running server has escrowReleaseDate = creation time + d days, and
\* + 7 days only when no value is configured.
C20_ConfiguredDelayUsed ==
  [][(admin.pc = "on" /\ Len(referrals') = Len(referrals) + 1)
       => referrals'[Len(referrals')].releaseDate =
            now + DayUnits * (IF admin.control.set THEN admin.control.value
                              ELSE 7)]_vars

\* ------------------------------------------------------------------- C21
\* C21: after POST /api/signup the stored pending signup transaction's
\* reference equals the CheckoutRequestID the payment-initiation client
\* returned, so a success callback carrying that CheckoutRequestID, once
\* processed, has created the user and completed the transaction.
C21_SignupCorrelation ==
  \A i \in 1..Len(transactions) :
    transactions[i].isSignup =>
      /\ transactions[i].ref = CheckoutRequestID(i)
      /\ \A t \in Tasks :
           ( /\ pc[t] = "done"
             /\ loc[t].op = "webhook"
             /\ loc[t].resp = "processed"
             /\ loc[t].ev.checkout = CheckoutRequestID(i)
             /\ loc[t].ev.code = 0
             /\ loc[t].ev.items )
           => /\ transactions[i].status = "completed"
              /\ transactions[i].userId # NullUser

\* the gateway's success callback for a signup was processed and the signup
\* transaction is still pending without a user
C21_CallbackFindsNothing ==
  \E i \in 1..Len(transactions) : \E t \in Tasks :
    /\ transactions[i].isSignup
    /\ transactions[i].status = "pending"
    /\ transactions[i].userId = NullUser
    /\ pc[t] = "done"
    /\ loc[t].op = "webhook"
    /\ loc[t].resp = "processed"
    /\ loc[t].ev.checkout = CheckoutRequestID(i)
    /\ loc[t].ev.code = 0
    /\ loc[t].ev.items

\* ------------------------------------------------------------------- C22
\* the persistent record of the key is completed and one window old or older
ExpiredCompleted(key) ==
  /\ key \in DOMAIN webhook_idempotency
  /\ webhook_idempotency[key].status = "completed"
  /\ now - webhook_idempotency[key].processed_at >= IDEMPOTENCY_WINDOW_MS

\* C22: a delivery whose completed idempotency record is 24 hours old or
\* older is treated as a new event: the check drops the stale in-memory
\* entry and goes on to delete the persistent record, the event is then
\* marked and processed again, and the record it leaves is completed with
\* the time of this processing.
C22_ExpiredIsNew ==
  /\ [][\A t \in Tasks :
          ( /\ pc[t] = "wh_check"
            /\ pc'[t] # "wh_check"
            /\ ExpiredCompleted(KeyOf(loc[t].ev)) )
          => /\ pc'[t] = "wh_expire"
             /\ KeyOf(loc[t].ev) \notin DOMAIN processedWebhooks'[loc[t].proc]]_vars
  /\ [][\A t \in Tasks :
          (pc[t] = "wh_expire" /\ pc'[t] # "wh_expire")
          => /\ pc'[t] = "wh_mark"
             /\ KeyOf(loc[t].ev) \notin DOMAIN webhook_idempotency']_vars
  /\ [][\A t \in Tasks :
          (pc[t] = "wh_mark" /\ pc'[t] # "wh_mark")
          => /\ pc'[t] \in {"wh_find", "wh_find_fail", "wh_complete"}
             /\ webhook_idempotency'[KeyOf(loc[t].ev)].status = "processing"]_vars
  /\ [][\A t \in Tasks :
          (pc[t] = "wh_complete" /\ pc'[t] = "done")
          => /\ loc'[t].resp = "processed"
             /\ webhook_idempotency'[KeyOf(loc[t].ev)] =
                  [status |-> "completed", processed_at |-> now]
             /\ processedWebhooks'[loc[t].proc][KeyOf(loc[t].ev)] = now]_vars

\* one key was processed twice, a window or more apart, and its record is
\* the completed record of the second processing
C22_Witness ==
  \E a, b \in applied :
    /\ a.key = b.key
    /\ b.at - a.at >= IDEMPOTENCY_WINDOW_MS
    /\ webhook_idempotency[a.key] = [status |-> "completed", processed_at |-> b.at]
    /\ \E t \in Tasks : /\ pc[t] = "done"
                        /\ loc[t].op = "webhook"
                        /\ KeyOf(loc[t].ev) = a.key
                        /\ loc[t].resp = "processed"

\* ------------------------------------------------------------------- C23
\* C23: once markAsProcessing has written the 'processing' record of a key,
\* a concurrent duplicate delivery whose idempotency check runs after that
\* write and before completion hits the record and is answered as a
\* duplicate, without going on to process the event.
C23_ProcessingRecordBlocks ==
  [][\A t \in Tasks :
       ( /\ pc[t] = "wh_check"
         /\ pc'[t] # "wh_check"
         /\ KeyOf(loc[t].ev) \in DOMAIN webhook_idempotency
         /\ webhook_idempotency[KeyOf(loc[t].ev)].status = "processing" )
       => /\ pc'[t] = "done"
          /\ loc'[t].resp = "already processed"]_vars

\* two deliveries of one key are past the idempotency check at once, the
\* second having checked while the first one's record said 'processing'
C23_BothProcess ==
  \E s, t \in Tasks :
    /\ s # t
    /\ loc[s].op = "webhook" /\ loc[t].op = "webhook"
    /\ KeyOf(loc[s].ev) = KeyOf(loc[t].ev)
    /\ pc[s] \in {"wh_find", "wh_find_fail", "wh_complete"}
    /\ pc[t] = "wh_expire"

\* ------------------------------------------------------------------- C24
\* the ledger entries posted for the transaction of referral r
ReleaseEntries(r) ==
  {i \in 1..Len(ledger_entries) :
     /\ ledger_entries[i].transactionId \in 1..Len(transactions)
     /\ transactions[ledger_entries[i].transactionId].ref = RefOfReferral(r)}

\* C24: releaseEscrow holds no lock; its only guards are the status test of
\* its fetch and the pending test of its transaction select. A call that
\* fetches after the referral was set paid is rejected, a call that selects
\* after the transaction was completed posts nothing, and every entry posted
\* for a referral's transaction is a credit to the referrer.
\* Two concurrent calls for the same due referral that both read before
\* either writes therefore both post such a credit: a double release.
C24_OnlyReadGuards ==
  /\ [][\A t \in Tasks :
          ( /\ pc[t] = "re_fetch"
            /\ pc'[t] # "re_fetch"
            /\ loc[t].ref \in 1..Len(referrals)
            /\ referrals[loc[t].ref].status # "escrow" )
          => /\ pc'[t] \in {"sw_loop", "done"}
             /\ loc'[t].resp = "not found or not in escrow"]_vars
  /\ [][\A t \in Tasks :
          ( /\ pc[t] = "re_find"
            /\ pc'[t] # "re_find"
            /\ \A i \in 1..Len(transactions) :
                 ~ ( /\ transactions[i].ref = RefOfReferral(loc[t].ref)
                     /\ transactions[i].status = "pending" ) )
          => pc'[t] = "re_ret"]_vars
  /\ [](\A r \in 1..Len(referrals) : \A i \in ReleaseEntries(r) :
          /\ ledger_entries[i].debit = 0
          /\ ledger_entries[i].credit > 0
          /\ ledger_entries[i].userId = referrals[r].referrerId)

\* a double release: two calls have returned, each having completed the
\* transaction of the same referral, and it has two credit entries
C24_Witness ==
  \E r \in 1..Len(referrals) : \E i, j \in ReleaseEntries(r) :
    /\ i # j
    /\ ledger_entries[i].transactionId = ledger_entries[j].transactionId
    /\ ledger_entries[i].credit > 0
    /\ ledger_entries[j].credit > 0
    /\ referrals[r].status = "paid"
    /\ \E s, t \in Tasks :
         /\ s # t
         /\ pc[s] = "done" /\ pc[t] = "done"
         /\ loc[s].op \in {"release", "sweep"}
         /\ loc[t].op \in {"release", "sweep"}
         /\ loc[s].tx = ledger_entries[i].transactionId
         /\ loc[t].tx = ledger_entries[i].transactionId

\* ------------------------------------------------------------------- C25
\* C25: the balance stored in a ledger entry equals the user's totalBalance
\* derived from the transaction store right after the posting, the posted
\* transaction counted exactly once, whether or not a cache row existed
\* and whichever caller posted the entry.
C25_EntryBalanceSnapshot ==
  [][Len(ledger_entries') = Len(ledger_entries) + 1
     => ledger_entries'[Len(ledger_entries')].balance =
          computeBalance(transactions',
                         ledger_entries'[Len(ledger_entries')].userId).total]_vars

\* an entry whose balance counts its own transaction twice: posted for a
\* user without cache row, after the transaction was already completed
C25_CountedTwice ==
  \E i \in 1..Len(ledger_entries) :
    /\ ledger_entries[i].credit > 0
    /\ ledger_entries[i].credit =
         transactions[ledger_entries[i].transactionId].amount
    /\ ledger_entries[i].balance =
         computeBalance(transactions, ledger_entries[i].userId).total
           + ledger_entries[i].credit

\* ------------------------------------------------------------------- C26
\* the control points of a call recordTransaction(tx)
RecordPoints == {"led_getbal", "cmp_read", "cmp_write", "led_insert", "led_upsert"}

\* the entry recordTransaction owes for the call task t is in
OwedEntry(t) ==
  LET type == transactions[loc[t].tx].type
  IN [transactionId |-> loc[t].tx,
      userId |-> loc[t].user,
      debit |-> IF type \in {"withdrawal", "fee"} THEN loc[t].snapAmount ELSE 0,
      credit |-> IF type \in {"deposit", "referral_payout", "escrow_release"}
                   THEN loc[t].snapAmount ELSE 0]

\* C26: recordTransaction(tx) posts exactly one ledger entry, for tx.id and
\* tx.userId, with credit = tx.amount for deposit, referral_payout and
\* escrow_release and debit = tx.amount for withdrawal and fee, and then
\* refreshes the user's cached balance; it changes no transaction and no
\* other user's entries or cache row.
C26_RecordTransaction ==
  /\ [][\A t \in Tasks :
          (pc[t] \in RecordPoints /\ pc'[t] # pc[t])
          => /\ transactions' = transactions
             /\ \A u \in UserIds \ {loc[t].user} :
                  user_balances'[u] = user_balances[u]
             /\ IF pc[t] = "led_insert"
                  THEN /\ Len(ledger_entries') = Len(ledger_entries) + 1
                       /\ SubSeq(ledger_entries', 1, Len(ledger_entries)) =
                            ledger_entries
                       /\ LET e == ledger_entries'[Len(ledger_entries')]
                          IN [transactionId |-> e.transactionId,
                              userId |-> e.userId, debit |-> e.debit,
                              credit |-> e.credit] = OwedEntry(t)
                       /\ pc'[t] = "cmp_read"
                  ELSE /\ ledger_entries' = ledger_entries
                       /\ pc[t] = "led_getbal" => pc'[t] \in {"led_insert", "cmp_read"}
                       /\ pc[t] = "cmp_read" => pc'[t] = "cmp_write"
                       /\ pc[t] = "cmp_write" =>
                            pc'[t] \in {"led_insert", "led_upsert", "done"}
             /\ pc[t] = "led_upsert" =>
                  /\ pc'[t] \notin RecordPoints
                  /\ user_balances'[loc[t].user] =
                       computeBalance(transactions, loc[t].user)]_vars

\* a call has returned having posted a debit entry for a fee or withdrawal
\* and refreshed the cache
C26_Witness ==
  \E t \in Tasks : \E i \in 1..Len(ledger_entries) :
    /\ pc[t] = "wh_complete"
    /\ ledger_entries[i].transactionId = loc[t].tx
    /\ ledger_entries[i].debit = loc[t].snapAmount
    /\ ledger_entries[i].debit > 0
    /\ ledger_entries[i].credit = 0
    /\ transactions[loc[t].tx].type \in {"withdrawal", "fee"}
    /\ user_balances[loc[t].user] = computeBalance(transactions, loc[t].user)

\* ------------------------------------------------------------------- C27
\* two callbacks for two pending transactions of one user, interleaved: the
\* tables after two requests have each recorded a pending transaction
InitRecord ==
  /\ now = StartTime
  /\ \E u \in Requesters :
       \E ty \in [1..MaxTx -> RequestTypes], m \in [1..MaxTx -> RequestAmounts] :
         transactions = [i \in 1..MaxTx |->
           [userId |-> u, type |-> ty[i], amount |-> m[i], status |-> "pending",
            ref |-> Reference("CO", i), isSignup |-> FALSE, email |-> ""]]
  /\ ledger_entries = <<>>
  /\ user_balances = [u \in UserIds |-> ZeroBalance]
  /\ referrals = <<>>
  /\ users = {[id |-> u, email |-> u, phone |-> ""] : u \in ExistingUsers}
  /\ user_devices = {}
  /\ webhook_idempotency = <<>>
  /\ processedWebhooks = [p \in Procs |-> <<>>]
  /\ deliveries = 0
  /\ requests = 0
  /\ applied = {}
  /\ pc = [t \in Tasks |-> "idle"]
  /\ loc = [t \in Tasks |-> InitLoc]
  /\ concurrent = TRUE
  /\ escrowDelayDays \in DelayChoices
  /\ fraud = ServiceOff /\ limits = ServiceOff /\ admin = ServiceOff
  /\ strictSchema \in BOOLEAN
NextRecord ==
  \E t \in Tasks :
    \/ \E ev \in Events, p \in ProcChoices : processWebhook(t, ev, p)
    \/ checkIdempotency(t)
    \/ checkIdempotency_cleanup(t)
    \/ markAsProcessing(t)
    \/ processWebhook_find(t)
    \/ processWebhook_update(t)
    \/ processWebhook_findFailed(t)
    \/ processWebhook_failed(t)
    \/ createLedgerEntry_getUserBalance(t)
    \/ computeBalanceFromTransactions_read(t)
    \/ computeBalanceFromTransactions_write(t)
    \/ createLedgerEntry_insert(t)
    \/ updateUserBalanceCache(t)
    \/ markAsCompleted(t)
    \/ Finish(t)
SpecRecord == InitRecord /\ [][NextRecord]_vars

C27_StaleOverwrite ==
  /\ Quiescent
  /\ \A i \in 1..MaxTx : /\ i <= Len(transactions)
                         /\ transactions[i].status = "completed"
                         /\ Cardinality(EntriesOf(i)) = 1
  /\ \E u \in Requesters :
       /\ user_balances[u].exists
       /\ user_balances[u].total # computeBalance(transactions, u).total

\* ------------------------------------------------------------------- C28
\* the sweep over several referrals, with store calls that can fail
SweepRefs == 2

\* the tables once SweepRefs referrals of one referrer exist, each with its
\* pending referral_payout transaction, due now or after the next tick
InitSweep ==
  /\ now = StartTime
  /\ \E a \in Requesters, b \in ExistingUsers \ Requesters, m \in ReferralAmounts :
       \E d \in [1..SweepRefs -> {StartTime, StartTime + DayUnits}] :
         /\ referrals = [r \in 1..SweepRefs |->
              [referrerId |-> a, referredId |-> b, amount |-> m,
               status |-> "escrow", releaseDate |-> d[r], reason |-> ""]]
         /\ transactions = [r \in 1..SweepRefs |->
              [userId |-> a, type |-> "referral_payout", amount |-> m,
               status |-> "pending", ref |-> RefOfReferral(r),
               isSignup |-> FALSE, email |-> ""]]
  /\ ledger_entries = <<>>
  /\ user_balances = [u \in UserIds |-> ZeroBalance]
  /\ users = {[id |-> u, email |-> u, phone |-> ""] : u \in ExistingUsers}
  /\ user_devices = {}
  /\ webhook_idempotency = <<>>
  /\ processedWebhooks = [p \in Procs |-> <<>>]
  /\ deliveries = 0
  /\ requests = 0
  /\ applied = {}
  /\ pc = [t \in Tasks |-> "idle"]
  /\ loc = [t \in Tasks |-> InitLoc]
  /\ concurrent = FALSE
  /\ escrowDelayDays \in DelayChoices
  /\ fraud = ServiceOff /\ limits = ServiceOff /\ admin = ServiceOff
  /\ strictSchema = TRUE

\* processEscrowReleases: the selection query answers with an error and the
\* sweep throws to its caller
processEscrowReleases_error(t) ==
  /\ CanStart(t)
  /\ SetLoc(t, [InitLoc EXCEPT !.op = "sweep", !.inSweep = TRUE,
                  !.resp = "failed to fetch escrow referrals"])
  /\ Goto(t, "done")
  /\ UNCHANGED <<now, concurrent, aux, store, processedWebhooks, escrowDelayDays,
                 deliveries, applied>>

\* releaseEscrow: the fetch answers with an error (fetchError)
releaseEscrow_fetchError(t) ==
  /\ pc[t] = "re_fetch"
  /\ ReleaseThrows(t, "not found or not in escrow")
  /\ UNCHANGED <<requests, now, concurrent, aux, store, processedWebhooks, escrowDelayDays,
                 deliveries, applied>>

\* createLedgerEntry under releaseEscrow: the insert answers with an error
\* and 'Failed to create ledger entry' is thrown through recordTransaction
createLedgerEntry_error(t) ==
  /\ pc[t] = "led_insert"
  /\ loc[t].op \in {"release", "sweep"}
  /\ ReleaseThrows(t, "failed to create ledger entry")
  /\ UNCHANGED <<requests, now, concurrent, aux, store, processedWebhooks, escrowDelayDays,
                 deliveries, applied>>

NextSweep ==
  \/ Tick
  \/ \E t \in Tasks :
       \/ processEscrowReleases(t)
       \/ processEscrowReleases_error(t)
       \/ processEscrowReleases_loop(t)
       \/ releaseEscrow_fetch(t)
       \/ releaseEscrow_fetchError(t)
       \/ releaseEscrow_paid(t)
       \/ releaseEscrow_find(t)
       \/ releaseEscrow_update(t)
       \/ releaseEscrow_return(t)
       \/ createLedgerEntry_getUserBalance(t)
       \/ computeBalanceFromTransactions_read(t)
       \/ computeBalanceFromTransactions_write(t)
       \/ createLedgerEntry_insert(t)
       \/ createLedgerEntry_error(t)
       \/ updateUserBalanceCache(t)
       \/ Finish(t)
SpecSweep == InitSweep /\ [][NextSweep]_vars

\* the control points inside one releaseEscrow call
ReleasePoints ==
  {"re_fetch", "re_paid", "re_find", "re_update", "re_ret"} \cup RecordPoints

\* C28: in a sweep a failed release of one referral is caught: the loop goes
\* on with the remaining referrals, the sweep does not throw, and its
\* count rises by one exactly when a release returns normally, so it
\* returns the number of successful releases. The sweep fails as a whole
\* only when its selection query fails, and then it has changed nothing.
C28_SweepIsolation ==
  /\ [][\A t \in Tasks :
          (loc[t].inSweep /\ pc[t] # "done" /\ pc'[t] # pc[t]) =>
            /\ loc'[t].count =
                 loc[t].count + (IF pc[t] = "re_ret" THEN 1 ELSE 0)
            /\ (pc[t] \in ReleasePoints /\ pc'[t] \notin ReleasePoints)
                 => /\ pc'[t] = "sw_loop"
                    /\ loc'[t].queue = loc[t].queue
            /\ (pc[t] = "sw_loop" /\ loc[t].queue # <<>>)
                 => /\ pc'[t] = "re_fetch"
                    /\ loc'[t].ref = Head(loc[t].queue)
                    /\ loc'[t].queue = Tail(loc[t].queue)
            /\ pc'[t] = "done"
                 => /\ pc[t] = "sw_loop"
                    /\ loc[t].queue = <<>>
                    /\ loc'[t].resp = "swept"]_vars
  /\ [][\A t \in Tasks :
          (pc[t] = "idle" /\ pc'[t] = "done")
            => /\ loc'[t].resp = "failed to fetch escrow referrals"
               /\ store' = store]_vars

\* a sweep over two due referrals has returned 1: the release of the first
\* failed and left it in escrow, the second was released after it
C28_Witness ==
  \E t \in Tasks :
    /\ pc[t] = "done"
    /\ loc[t].op = "sweep"
    /\ loc[t].resp = "swept"
    /\ loc[t].count = 1
    /\ referrals[1].status = "escrow"
    /\ IsDue(referrals[1], now)
    /\ referrals[2].status = "paid"
    /\ EntriesOf(2) # {}

\* ------------------------------------------------------------------- C29
\* the scheduler starts the sweep again and again and the handlers run to
\* their end; a store call that is retried without end succeeds in the end
SweepFairness ==
  /\ WF_vars(\E t \in Tasks :
               \/ processEscrowReleases_loop(t)
               \/ releaseEscrow_paid(t)
               \/ releaseEscrow_find(t)
               \/ releaseEscrow_update(t)
               \/ releaseEscrow_return(t)
               \/ createLedgerEntry_getUserBalance(t)
               \/ computeBalanceFromTransactions_read(t)
               \/ computeBalanceFromTransactions_write(t)
               \/ updateUserBalanceCache(t)
               \/ Finish(t))
  /\ SF_vars(\E t \in Tasks : processEscrowReleases(t))
  /\ SF_vars(\E t \in Tasks : releaseEscrow_fetch(t))
  /\ SF_vars(\E t \in Tasks : createLedgerEntry_insert(t))
SpecSweepFair == InitSweep /\ [][NextSweep]_vars /\ SweepFairness

\* C29: with the sweep repeated periodically every due referral in escrow
\* eventually leaves escrow; a sweep that returns without a per-referral
\* failure leaves none of the referrals that were due at its start in
\* escrow; and a referral whose release date lies in the future, and its
\* pending transaction, are not touched.
C29_DueReferralsLeaveEscrow ==
  /\ \A r \in 1..SweepRefs :
       (referrals[r].status = "escrow" /\ referrals[r].releaseDate <= now)
         ~> (referrals[r].status # "escrow")
  /\ [][\A t \in Tasks :
          ( /\ loc[t].inSweep
            /\ pc[t] # "done"
            /\ pc'[t] = "done"
            /\ loc'[t].resp = "swept"
            /\ loc'[t].count = Cardinality(loc'[t].sel) )
          => \A r \in loc'[t].sel : referrals'[r].status # "escrow"]_vars
  /\ [][\A r \in 1..SweepRefs :
          referrals[r].releaseDate > now
            => /\ referrals'[r] = referrals[r]
               /\ transactions'[r] = transactions[r]]_vars

\* a sweep has returned having released the one referral that was due; the
\* future-dated referral is in escrow with its transaction pending
C29_Witness ==
  \E t \in Tasks :
    /\ pc[t] = "done"
    /\ loc[t].op = "sweep"
    /\ loc[t].resp = "swept"
    /\ loc[t].sel = {1}
    /\ loc[t].count = 1
    /\ referrals[1].status = "paid"
    /\ EntriesOf(1) # {}
    /\ referrals[2].status = "escrow"
    /\ referrals[2].releaseDate > now
    /\ transactions[2].status = "pending"

\* ------------------------------------------------------------------- C30
\* C30: when processWebhook finishes a ResultCode 0 callback whose
\* CheckoutRequestID is the reference of a pending transaction that is not a
\* signup, that transaction is completed and exactly one ledger entry, a
\* credit to its user, has been posted for it, whatever metadata items the
\* callback carries.
C30_SuccessCallbackCompletes ==
  [][\A t \in Tasks :
       (pc[t] = "wh_complete" /\ pc'[t] = "done" /\ loc[t].ev.code = 0) =>
         \A i \in 1..Len(transactions) :
           ( /\ transactions[i].ref = loc[t].ev.checkout
             /\ ~transactions[i].isSignup
             /\ (loc[t].tx = i \/ transactions[i].status = "pending") )
           => /\ transactions[i].status = "completed"
              /\ Cardinality(EntriesOf(i)) = 1
              /\ \A k \in EntriesOf(i) :
                   /\ ledger_entries[k].userId = transactions[i].userId
                   /\ ledger_entries[k].credit > 0
                   /\ ledger_entries[k].debit = 0]_vars

\* a ResultCode 0 callback without CallbackMetadata was answered 'processed'
\* and the pending transaction it names is still pending, with no entry
C30_StillPending ==
  \E t \in Tasks : \E i \in 1..Len(transactions) :
    /\ pc[t] = "done"
    /\ loc[t].op = "webhook"
    /\ loc[t].resp = "processed"
    /\ loc[t].ev.code = 0
    /\ ~loc[t].ev.items
    /\ transactions[i].ref = loc[t].ev.checkout
    /\ ~transactions[i].isSignup
    /\ transactions[i].status = "pending"
    /\ EntriesOf(i) = {}

\* ------------------------------------------------------------------- C31
\* C31: a success callback that matches a pending signup transaction creates
\* no user when one with the transaction's email exists and exactly one
\* user with that email otherwise, associates the stored fingerprint with a
\* new user, attaches the transaction to the user and completes it, and
\* posts exactly one credit entry to that user; afterwards no completed
\* signup transaction has a null userId.
C31_SignupPayment ==
  /\ [][\A t \in Tasks :
          (pc[t] = "su_user" /\ pc'[t] # "su_user") =>
            IF UsersWithEmail(loc[t].snapEmail) # {}
              THEN /\ pc'[t] = "su_ex_update"
                   /\ \E u \in UsersWithEmail(loc[t].snapEmail) : loc'[t].user = u.id
              ELSE pc'[t] = "su_insert"]_vars
  /\ [][users' # users =>
          \E t \in Tasks :
            /\ pc[t] = "su_insert"
            /\ UsersWithEmail(loc[t].snapEmail) = {}
            /\ \E u \in users' :
                 /\ users' = users \cup {u}
                 /\ u.id = loc'[t].user
                 /\ u.email = loc[t].snapEmail]_vars
  /\ [][\A t \in Tasks :
          (pc[t] = "su_device" /\ pc'[t] # "su_device") =>
            \E d \in user_devices' :
              /\ d.user_id = loc[t].user
              /\ d.fingerprint_hash = transactions[loc[t].tx].email]_vars
  /\ [][\A t \in Tasks :
          ( /\ pc[t] = "wh_complete"
            /\ pc'[t] = "done"
            /\ loc[t].tx # 0
            /\ loc[t].ev.code = 0
            /\ transactions[loc[t].tx].isSignup ) =>
            LET tx == transactions[loc[t].tx]
            IN /\ tx.status = "completed"
               /\ UsersWithEmail(tx.email) = {u \in users : u.id = tx.userId}
               /\ Cardinality(UsersWithEmail(tx.email)) = 1
               /\ Cardinality(EntriesOf(loc[t].tx)) = 1
               /\ \A k \in EntriesOf(loc[t].tx) :
                    /\ ledger_entries[k].userId = tx.userId
                    /\ ledger_entries[k].credit = SignupAmount
                    /\ ledger_entries[k].debit = 0]_vars
  /\ [](Quiescent =>
          \A i \in 1..Len(transactions) :
            (transactions[i].isSignup /\ transactions[i].status = "completed")
              => transactions[i].userId # NullUser)

\* two signup payments for one email were processed: the first created the
\* user, the second was attached to that user, and each has its one entry
C31_Witness ==
  /\ Quiescent
  /\ Len(transactions) = 2
  /\ \A i \in 1..2 : /\ transactions[i].isSignup
                     /\ transactions[i].status = "completed"
                     /\ Cardinality(EntriesOf(i)) = 1
  /\ transactions[1].userId = transactions[2].userId
  /\ transactions[1].userId # NullUser
  /\ Cardinality(UsersWithEmail(transactions[1].email)) = 1
  /\ \E d \in user_devices : d.user_id = transactions[1].userId

\* C32: a callback with a nonzero ResultCode that names a pending
\* transaction sets its status to failed, posts no ledger entry, creates no
\* user and leaves every user's recomputed balance as it was; when no
\* pending transaction has the reference, no table row changes.
C32_FailureCallback ==
  /\ [][\A t \in Tasks :
          (pc[t] = "wh_fail" /\ pc'[t] # "wh_fail")
          => /\ transactions'[loc[t].tx].status = "failed"
             /\ ledger_entries' = ledger_entries
             /\ users' = users
             /\ \A u \in UserIds :
                  computeBalance(transactions', u)
                    = computeBalance(transactions, u)]_vars
  /\ [][\A t \in Tasks :
          (/\ pc[t] = "wh_find_fail" /\ pc'[t] # "wh_find_fail"
           /\ PendingByReference(loc[t].ev.checkout) = 0)
          => /\ pc'[t] = "wh_complete"
             /\ store' = store]_vars

\* a failure callback was answered and the transaction it named is pending
C32_StillPending ==
  \E t \in Tasks :
    /\ pc[t] = "done" /\ loc[t].op = "webhook"
    /\ loc[t].ev.code # 0 /\ loc[t].tx # 0
    /\ loc[t].resp = "processed"
    /\ transactions[loc[t].tx].status = "pending"

\* a failure callback changed a referrer's recomputed escrow balance
C32_EscrowChanged ==
  \E t \in Tasks :
    /\ pc[t] = "done" /\ loc[t].op = "webhook"
    /\ loc[t].ev.code # 0 /\ loc[t].tx # 0
    /\ transactions[loc[t].tx].type = "referral_payout"
    /\ transactions[loc[t].tx].status = "failed"
    /\ \E r \in 1..Len(referrals) :
         /\ referrals[r].status = "escrow"
         /\ transactions[loc[t].tx].ref = RefOfReferral(r)
         /\ computeBalance(transactions, referrals[r].referrerId).escrow = 0

\* C33: every delivery that is not a duplicate and raises no exception ends,
\* on each branch alike, with the record of its key completed and stamped
\* with the time of processing, the key in the process's in-memory map, a
\* webhook_processed audit event emitted and the 200 response.
C33_EveryBranchCompletes ==
  [][\A t \in Tasks :
       (pc[t] = "wh_complete" /\ pc'[t] = "done")
       => LET key == KeyOf(loc[t].ev)
          IN /\ key \in DOMAIN webhook_idempotency'
             /\ webhook_idempotency'[key].status = "completed"
             /\ webhook_idempotency'[key].processed_at = now
             /\ key \in DOMAIN processedWebhooks'[loc[t].proc]
             /\ loc'[t].resp = "processed"
             /\ loc'[t].audit = "webhook_processed"]_vars

\* a delivery was processed and answered 200 and emitted no audit event
C33_NoAuditEvent ==
  \E t \in Tasks :
    /\ pc[t] = "done" /\ loc[t].op = "webhook"
    /\ loc[t].resp = "processed"
    /\ KeyOf(loc[t].ev) \in DOMAIN webhook_idempotency
    /\ webhook_idempotency[KeyOf(loc[t].ev)].status = "completed"
    /\ loc[t].audit = "none"

\* the transactions other than the one of referral r
WithoutReferralTx(txs, r) ==
  SelectSeq(txs, LAMBDA row : row.ref # RefOfReferral(r))

ReferredBack(rows, referrerId) ==
  \E i, j \in 1..Len(rows) :
    /\ rows[i].referrer_id = referrerId
    /\ rows[j].referrer_id = rows[i].referred_id
    /\ rows[j].referred_id = referrerId

HasReason(check, reason) ==
  \E i \in 1..Len(check.reasons) : check.reasons[i] = reason

\* C35: detectReferralAbuse adds the circular-pattern score of 60 exactly
\* when some user referred by the referrer has referred the referrer back;
\* a referrer none of whose referred users ever referred anyone gets no
\* circular-pattern score, however many referrals the referrer has made.
C35_CircularExactly ==
  [][(fraud.pc = "abuse_circularRefs" /\ fraud'.pc # "abuse_circularRefs")
       => (HasReason(fraud'.acc, "Circular referral pattern")
             <=> ReferredBack(fraud.referrals, fraud.request.userId))]_vars

\* the check scored a circular pattern for a referrer whom nobody referred
C35_ScoredWithoutCircle ==
  /\ fraud.pc = "abuse_recentAccounts"
  /\ HasReason(fraud.acc, "Circular referral pattern")
  /\ fraud.acc.riskScore >= 60
  /\ \A i \in 1..Len(fraud.referrals) :
       fraud.referrals[i].referred_id # fraud.request.userId

\* ------------------------------------------------------------------- C36
\* the tables once a referral exists whose release date has come, with its
\* pending referral_payout transaction; the requests interleave
InitRelease ==
  /\ now = StartTime
  /\ \E a \in Requesters, b \in ExistingUsers \ Requesters, m \in ReferralAmounts :
       /\ referrals = <<[referrerId |-> a, referredId |-> b, amount |-> m,
                         status |-> "escrow", releaseDate |-> StartTime,
                         reason |-> ""]>>
       /\ transactions = <<[userId |-> a, type |-> "referral_payout",
                            amount |-> m, status |-> "pending",
                            ref |-> RefOfReferral(1), isSignup |-> FALSE,
                            email |-> ""]>>
  /\ ledger_entries = <<>>
  /\ user_balances = [u \in UserIds |-> ZeroBalance]
  /\ users = {[id |-> u, email |-> u, phone |-> ""] : u \in ExistingUsers}
  /\ user_devices = {}
  /\ webhook_idempotency = <<>>
  /\ processedWebhooks = [p \in Procs |-> <<>>]
  /\ deliveries = 0
  /\ requests = 0
  /\ applied = {}
  /\ pc = [t \in Tasks |-> "idle"]
  /\ loc = [t \in Tasks |-> InitLoc]
  /\ concurrent = TRUE
  /\ escrowDelayDays \in DelayChoices
  /\ fraud = ServiceOff /\ limits = ServiceOff /\ admin = ServiceOff
  /\ strictSchema \in BOOLEAN

\* releaseEscrow calls and webhook deliveries, interleaved
NextRelease ==
  \E t \in Tasks :
    \/ \E r \in 1..MaxRef : releaseEscrow(t, r)
    \/ releaseEscrow_fetch(t)
    \/ releaseEscrow_paid(t)
    \/ releaseEscrow_find(t)
    \/ releaseEscrow_update(t)
    \/ releaseEscrow_return(t)
    \/ \E ev \in Events, p \in ProcChoices : processWebhook(t, ev, p)
    \/ checkIdempotency(t)
    \/ checkIdempotency_cleanup(t)
    \/ markAsProcessing(t)
    \/ processWebhook_find(t)
    \/ processWebhook_update(t)
    \/ processWebhook_findFailed(t)
    \/ processWebhook_failed(t)
    \/ createLedgerEntry_getUserBalance(t)
    \/ computeBalanceFromTransactions_read(t)
    \/ computeBalanceFromTransactions_write(t)
    \/ createLedgerEntry_insert(t)
    \/ updateUserBalanceCache(t)
    \/ markAsCompleted(t)
    \/ Finish(t)
SpecRelease == InitRelease /\ [][NextRelease]_vars

\* both tasks have returned from releaseEscrow(r)
BothReleased(r) ==
  \A t \in Tasks :
    /\ pc[t] = "done" /\ loc[t].op = "release"
    /\ loc[t].ref = r /\ loc[t].resp = "released"

C36_Witness ==
  \E r \in 1..Len(referrals) :
    /\ BothReleased(r)
    /\ \E i \in 1..Len(transactions) :
         /\ transactions[i].ref = RefOfReferral(r)
         /\ Cardinality(EntriesOf(i)) = 2

\* C37: completed, failed and cancelled are terminal: no step of a webhook
\* delivery, a release, a sweep or cancelReferral changes the status or the
\* type of a transaction that is not pending, so a credit counted in
\* totalBalance is never removed.
C37_TerminalStatuses ==
  [][\A i \in 1..Len(transactions) :
       transactions[i].status # "pending"
         => /\ transactions'[i].status = transactions[i].status
            /\ transactions'[i].type = transactions[i].type]_vars

\* a referral was paid and released, then cancelled: its transaction went
\* from completed to cancelled and the ledger still holds the credit
C37_CreditRemoved ==
  \E t \in Tasks :
    /\ pc[t] = "done" /\ loc[t].op = "cancel" /\ loc[t].snapStatus = "paid"
    /\ \E i \in 1..Len(transactions) :
         /\ transactions[i].ref = RefOfReferral(loc[t].ref)
         /\ transactions[i].status = "cancelled"
         /\ transactions[i].type = "escrow_release"
         /\ EntriesOf(i) # {}
         /\ computeBalance(transactions, transactions[i].userId).total = 0

\* the transactions of referrals
IsReferralTx(i) == \E r \in 1..Len(referrals) : transactions[i].ref = RefOfReferral(r)

C38_RealisedEarly ==
  \E r \in 1..Len(referrals), i \in 1..Len(transactions) :
    /\ Quiescent
    /\ transactions[i].ref = RefOfReferral(r)
    /\ transactions[i].status = "completed"
    /\ referrals[r].status = "escrow"
    /\ referrals[r].releaseDate > now
    /\ computeBalance(transactions, referrals[r].referrerId).total > 0

RECURSIVE LedgerSum(_, _)
\* credits minus debits over the ledger entries of a user, from entry k on
LedgerSum(userId, k) ==
  IF k > Len(ledger_entries) THEN 0
  ELSE (IF ledger_entries[k].userId = userId
          THEN ledger_entries[k].credit - ledger_entries[k].debit ELSE 0)
       + LedgerSum(userId, k + 1)

\* C39: whenever no operation is in flight every ledger entry's side that
\* is not zero equals the amount stored on its transaction, and the sum of
\* credits minus debits over a user's entries equals the totalBalance
\* recomputed from the user's transactions; a webhook completion leaves the
\* stored amount equal to the amount posted to the ledger.
C39_LedgerAgreesWithTransactions ==
  /\ [](Quiescent =>
          /\ \A k \in 1..Len(ledger_entries) :
               LET amount == transactions[ledger_entries[k].transactionId].amount
               IN /\ ledger_entries[k].credit # 0
                       => ledger_entries[k].credit = amount
                  /\ ledger_entries[k].debit # 0
                       => ledger_entries[k].debit = amount
          /\ \A u \in UserIds :
               LedgerSum(u, 1) = computeBalance(transactions, u).total)
  /\ [][\A t \in Tasks :
          (pc[t] = "wh_update" /\ pc'[t] # "wh_update")
          => transactions'[loc[t].tx].amount = transactions[loc[t].tx].amount]_vars

\* at rest a completed transaction stores the callback's amount while its
\* one ledger entry holds the amount that was requested, and the user's
\* ledger sum differs from the recomputed total
C39_AmountsDiffer ==
  /\ Quiescent
  /\ \E i \in 1..Len(transactions) :
       /\ transactions[i].status = "completed"
       /\ Cardinality(EntriesOf(i)) = 1
       /\ \A k \in EntriesOf(i) :
            /\ ledger_entries[k].credit + ledger_entries[k].debit
                 # transactions[i].amount
            /\ LedgerSum(transactions[i].userId, 1)
                 # computeBalance(transactions, transactions[i].userId).total

\* ------------------------------------------------------------------- C40
\* the tables once a pending transaction waits for its callback: a request
\* of an existing user, or two signups with one email
InitRetry ==
  /\ now = StartTime
  /\ \/ \E u \in Requesters, ty \in RequestTypes, m \in RequestAmounts :
          transactions =
            <<[userId |-> u, type |-> ty, amount |-> m, status |-> "pending",
               ref |-> Reference("CO", 1), isSignup |-> FALSE, email |-> ""]>>
     \/ \E e \in Emails :
          transactions = [i \in 1..MaxTx |->
            [userId |-> NullUser, type |-> "deposit", amount |-> SignupAmount,
             status |-> "pending", ref |-> Reference("CO", i),
             isSignup |-> TRUE, email |-> e]]
  /\ ledger_entries = <<>>
  /\ user_balances = [u \in UserIds |-> ZeroBalance]
  /\ referrals = <<>>
  /\ users = {[id |-> u, email |-> u, phone |-> ""] : u \in ExistingUsers}
  /\ user_devices = {}
  /\ webhook_idempotency = <<>>
  /\ processedWebhooks = [p \in Procs |-> <<>>]
  /\ deliveries = 0
  /\ requests = 0
  /\ applied = {}
  /\ pc = [t \in Tasks |-> "idle"]
  /\ loc = [t \in Tasks |-> InitLoc]
  /\ concurrent = FALSE
  /\ escrowDelayDays \in DelayChoices
  /\ fraud = ServiceOff /\ limits = ServiceOff /\ admin = ServiceOff
  /\ strictSchema \in BOOLEAN

\* processWebhook's catch: the exception is logged and answered with 500;
\* the record of the key stays as markAsProcessing wrote it (history: the
\* aborted delivery is kept in applied with no time of completion)
processWebhook_catch(t) ==
  /\ SetLoc(t, [loc[t] EXCEPT !.resp = "error 500"])
  /\ Goto(t, "done")
  /\ applied' = applied \cup
       {[key |-> KeyOf(loc[t].ev), at |-> NullTime, tx |-> loc[t].tx]}
  /\ UNCHANGED <<requests, now, concurrent, aux, store, processedWebhooks,
                 escrowDelayDays, deliveries>>

\* handleSignupPayment: the insert into users answers with an error and
\* 'Failed to create user' is thrown
handleSignupPayment_userError(t) ==
  /\ pc[t] = "su_insert"
  /\ processWebhook_catch(t)

\* createLedgerEntry under processWebhook: the insert answers with an error
\* and 'Failed to create ledger entry' is thrown through recordTransaction
createLedgerEntry_errorWebhook(t) ==
  /\ pc[t] = "led_insert"
  /\ loc[t].op = "webhook"
  /\ processWebhook_catch(t)

\* webhook deliveries, one after the other, with store calls that can fail
NextRetry ==
  \E t \in Tasks :
    \/ \E ev \in Events, p \in ProcChoices : processWebhook(t, ev, p)
    \/ checkIdempotency(t)
    \/ checkIdempotency_cleanup(t)
    \/ markAsProcessing(t)
    \/ processWebhook_find(t)
    \/ processWebhook_update(t)
    \/ processWebhook_findFailed(t)
    \/ processWebhook_failed(t)
    \/ handleSignupPayment_get(t)
    \/ handleSignupPayment_user(t)
    \/ handleSignupPayment_existingUpdate(t)
    \/ handleSignupPayment_existingAttach(t)
    \/ handleSignupPayment_insertUser(t)
    \/ handleSignupPayment_userError(t)
    \/ handleSignupPayment_newUpdate(t)
    \/ handleSignupPayment_device(t)
    \/ createLedgerEntry_getUserBalance(t)
    \/ computeBalanceFromTransactions_read(t)
    \/ computeBalanceFromTransactions_write(t)
    \/ createLedgerEntry_insert(t)
    \/ createLedgerEntry_errorWebhook(t)
    \/ updateUserBalanceCache(t)
    \/ markAsCompleted(t)
    \/ Finish(t)
SpecRetry == InitRetry /\ [][NextRetry]_vars

\* the deliveries of a key that aborted after finding a transaction
AbortedFor(key) ==
  {a \in applied : a.key = key /\ a.at = NullTime /\ a.tx # 0}

\* C40: a delivery that aborts with an exception after its key was marked
\* processing leaves the key neither in the in-memory map nor recorded as
\* completed; a redelivery of the event is processed afresh, not answered
\* as a duplicate; and when the redelivery has finished the transaction the
\* event matched is completed with exactly one ledger entry.
C40_RetryAfterAbort ==
  /\ [][\A t \in Tasks :
          (pc[t] # "done" /\ pc'[t] = "done" /\ loc'[t].resp = "error 500")
          => LET key == KeyOf(loc[t].ev)
             IN /\ key \notin DOMAIN processedWebhooks'[loc[t].proc]
                /\ key \in DOMAIN webhook_idempotency'
                /\ webhook_idempotency'[key].status = "processing"]_vars
  /\ [][\A t \in Tasks :
          (/\ pc[t] = "wh_check" /\ pc'[t] # "wh_check"
           /\ KeyOf(loc[t].ev) \in DOMAIN webhook_idempotency
           /\ webhook_idempotency[KeyOf(loc[t].ev)].status = "processing")
          => /\ pc'[t] # "done"
             /\ loc'[t].resp # "already processed"]_vars
  /\ [](\A t \in Tasks :
          (/\ pc[t] = "done" /\ loc[t].op = "webhook"
           /\ loc[t].resp = "processed"
           /\ loc[t].ev.code = 0 /\ loc[t].ev.items)
          => \A a \in AbortedFor(KeyOf(loc[t].ev)) :
               /\ transactions[a.tx].status = "completed"
               /\ Cardinality(EntriesOf(a.tx)) = 1)

\* the first attempt completed the transaction and aborted at the ledger
\* insert; the redelivery was processed and answered 200, and the
\* completed transaction has no ledger entry
C40_CompletedWithoutEntry ==
  \E t \in Tasks :
    /\ pc[t] = "done" /\ loc[t].op = "webhook"
    /\ loc[t].resp = "processed"
    /\ loc[t].ev.code = 0 /\ loc[t].ev.items
    /\ \E a \in AbortedFor(KeyOf(loc[t].ev)) :
         /\ transactions[a.tx].status = "completed"
         /\ EntriesOf(a.tx) = {}

====
